---- MODULE Spec2Model ----
(***************************************************************************)
(* TAuth: nonce store, refresh-token stores (in-memory and database) and   *)
(* the /auth/nonce, /auth/google, /auth/refresh and /auth/logout handlers. *)
(*                                                                         *)
(* Time is a natural number read from one wall clock (time.Now, and the    *)
(* system clock main.go injects into the handlers).  Random values         *)
(* (crypto/rand) are fresh numbers: 1, 2, 3, ...  Strings are numbers,     *)
(* BlankString being "".  Errors are strings; "nil" is success.  The       *)
(* sentinel errors carry their Go names; the errors the in-memory store    *)
(* builds with errors.New carry their message text.                        *)
(***************************************************************************)
EXTENDS Integers, Sequences, FiniteSets, TLC

\* ---------------------------------------------------------------- bounds
MaxTime == 3
MaxNonces == 2
MaxNonceRequests == 1
MaxTokens == 3
MaxRequests == 2
MaxDirect == 2
NonceTTL == 1
RefreshTTL == 2
NumUsers == 2
SessionTTL == 1

VARIABLES
    now,          \* the wall clock
    entries,      \* memoryNonceStore.entries: token -> expiry
    nonceSeq,     \* nonces drawn from the random source so far
    nonceLog,     \* history: per issued nonce, when issued and what Consume returned
    byID,         \* MemoryRefreshTokenStore.byID: TokenID -> record
    byHash,       \* MemoryRefreshTokenStore.byHash: hash -> TokenID
    sequenceID,   \* MemoryRefreshTokenStore.sequenceID
    rows,         \* refresh_tokens table of DatabaseRefreshTokenStore: TokenID -> record
    randSeq,      \* refresh secrets drawn from the random source so far
    issued,       \* history: what each direct Issue call returned, per store
    call,         \* history: the last direct store call and both stores' answers
    backend,      \* the store main.go wires into the routes: "memory" or "database"
    users,        \* InMemoryUsers.Users: the application user ids present
    req,          \* the HTTP requests in flight, one per slot
    last,         \* history: the request that finished last, with its response
    delivered,    \* refresh secrets a client has received in a cookie
    rotations,    \* history: per delivered secret, the 204 answers to refreshes presenting it
    passed,       \* history: per nonce, the login requests that got past the nonce check
    jar           \* the cookies a client holds: <<name, domain, path>> -> value, expiry

vars == <<now, entries, nonceSeq, nonceLog, byID, byHash, sequenceID, rows,
          randSeq, issued, call, backend, users, req, last, delivered, rotations,
          passed, jar>>

nonceVars == <<entries, nonceSeq, nonceLog>>
memVars == <<byID, byHash, sequenceID>>
storeVars == <<byID, byHash, sequenceID, rows, randSeq>>
directVars == <<issued, call, jar>>
httpVars == <<backend, users, req, last, delivered, rotations, passed>>

\* ---------------------------------------------------------------- helpers
Restrict(f, S) == [x \in S |-> f[x]]

Put(f, k, v) == [x \in DOMAIN f \cup {k} |-> IF x = k THEN v ELSE f[x]]

\* "" : the empty string, as a token, a secret or an id
BlankString == 0

\* the empty TokenID / PreviousTokenID ""
NoTokenID == <<>>

\* strings.TrimSpace(s) == ""
IsBlank(s) == s = BlankString

\* ---------------------------------------------------------------- nonce store
\* a purge that returns at once
purgeExpiredNever(e, t) == e

\* purgeExpiredLocked: drop every entry whose expiry is before t
purgeExpiredLocked(e, t) == Restrict(e, {k \in DOMAIN e : ~(t > e[k])})

\* randomToken: a fresh token, the n-th drawn
randomToken(n) == n

\* a token no Issue call ever returned
UnknownNonce == MaxNonces + 1

\* memoryNonceStore.Issue: the entries after issuing token at time t
NonceIssue(e, token, t) == Put(purgeExpiredLocked(e, t), token, t + NonceTTL)

NonceConsumeErrNoExpiry(e, token, t) ==
    IF token \notin DOMAIN e THEN "ErrNonceNotFound" ELSE "nil"

\* memoryNonceStore.Consume: the error returned
NonceConsumeErr(e, token, t) ==
    IF token \notin DOMAIN e THEN "ErrNonceNotFound"
    ELSE IF t > e[token] THEN "ErrNonceExpired"
    ELSE "nil"

NonceConsumeKeep(e, token, t) == purgeExpiredLocked(e, t)

\* a Consume that returns ErrNonceExpired before it deletes or purges
NonceConsumeExpiredEarly(e, token, t) ==
    IF token \in DOMAIN e /\ t > e[token] THEN e
    ELSE purgeExpiredLocked(Restrict(e, DOMAIN e \ {token}), t)

\* memoryNonceStore.Consume: the entries left
NonceConsume(e, token, t) ==
    purgeExpiredLocked(Restrict(e, DOMAIN e \ {token}), t)

\* history of the nonces: another call on the store at time t, made after
\* token k's issue time + TTL while k was never consumed, is remembered
LateCalls(log, except, t) ==
    [k \in DOMAIN log |->
        IF k # except /\ log[k].first = <<>> /\ t > log[k].issuedAt + NonceTTL
        THEN [log[k] EXCEPT !.lateCall = TRUE]
        ELSE log[k]]

LogConsume(log, token, t, err) ==
    IF token \notin DOMAIN log THEN LateCalls(log, token, t)
    ELSE [LateCalls(log, token, t) EXCEPT ![token] =
            IF @.first = <<>>
            THEN [@ EXCEPT !.first = <<t, err>>]
            ELSE [@ EXCEPT !.later = @ \cup {err}]]

LogIssue(log, token, t) ==
    Put(LateCalls(log, token, t), token,
        [issuedAt |-> t, first |-> <<>>, later |-> {}, lateCall |-> FALSE])

\* ---------------------------------------------------------------- refresh token helpers
\* hashOpaque: SHA-256 then base64, a one-way injective image apart from the secrets
HashBase == 100

\* a store key that is the secret itself
hashOpaqueRaw(opaque) == opaque

hashOpaque(opaque) == HashBase + opaque

\* newRefreshTokenID: the clock reading, formatted and encoded
newRefreshTokenID(t) == <<t>>

\* generateRefreshOpaque: the n-th secret drawn from crypto/rand
generateRefreshOpaque(n) == n

\* a secret and a TokenID no Issue call ever returned ("missing", "missing-token")
UnknownOpaque == MaxTokens + 1

UnknownTokenID == <<BlankString>>

\* what Validate returns beside a non-nil error: ("", "", 0, err)
ValidateFailure(err) ==
    [err |-> err, UserID |-> BlankString, TokenID |-> NoTokenID, ExpiresUnix |-> 0]

\* ---------------------------------------------------------------- in-memory refresh store
SequenceModulus == 255

memoryRecord(tokenID, user, hashValue, expiresUnix, previousTokenID, t) ==
    [TokenID |-> tokenID, UserID |-> user, Hash |-> hashValue,
     ExpiresUnix |-> expiresUnix, RevokedAtUnix |-> 0,
     PreviousTokenID |-> previousTokenID, IssuedAtUnix |-> t]

\* MemoryRefreshTokenStore.nextID, seq being the incremented sequenceID
nextID(seq, t) == Append(newRefreshTokenID(t), seq % SequenceModulus)

\* MemoryRefreshTokenStore.Issue: byID and byHash after the call
MemIssueByID(bid, seq, user, expiresUnix, previousTokenID, opaque, t) ==
    Put(bid, nextID(seq + 1, t),
        memoryRecord(nextID(seq + 1, t), user, hashOpaque(opaque), expiresUnix,
                     previousTokenID, t))

MemIssueByHash(bh, seq, opaque, t) == Put(bh, hashOpaque(opaque), nextID(seq + 1, t))

\* MemoryRefreshTokenStore.Validate
MemValidate(bid, bh, opaque, t) ==
    IF hashOpaque(opaque) \notin DOMAIN bh THEN ValidateFailure("not_found")
    ELSE IF bh[hashOpaque(opaque)] \notin DOMAIN bid THEN ValidateFailure("not_found")
    ELSE LET rec == bid[bh[hashOpaque(opaque)]] IN
         IF rec.RevokedAtUnix # 0 THEN ValidateFailure("revoked")
         ELSE IF rec.ExpiresUnix < t THEN ValidateFailure("expired")
         ELSE [err |-> "nil", UserID |-> rec.UserID, TokenID |-> rec.TokenID,
               ExpiresUnix |-> rec.ExpiresUnix]

\* MemoryRefreshTokenStore.Revoke: the error returned
MemRevokeErr(bid, tokenID) ==
    IF tokenID \notin DOMAIN bid THEN "not_found" ELSE "nil"

MemRevokeOverwrite(bid, tokenID, t) ==
    IF tokenID \notin DOMAIN bid THEN bid
    ELSE [bid EXCEPT ![tokenID].RevokedAtUnix = t]

\* MemoryRefreshTokenStore.Revoke: byID after the call
MemRevoke(bid, tokenID, t) ==
    IF tokenID \notin DOMAIN bid THEN bid
    ELSE IF bid[tokenID].RevokedAtUnix # 0 THEN bid
    ELSE [bid EXCEPT ![tokenID].RevokedAtUnix = t]

\* ---------------------------------------------------------------- database refresh store
refreshTokenRecord(tokenID, user, hashValue, expiresUnix, previousTokenID, t) ==
    [TokenID |-> tokenID, UserID |-> user, TokenHash |-> hashValue,
     ExpiresUnix |-> expiresUnix, RevokedAtUnix |-> 0,
     PreviousTokenID |-> previousTokenID, IssuedAtUnix |-> t]

\* DatabaseRefreshTokenStore.Issue: Create fails on the primary key (token_id)
\* or on the unique index (token_hash)
DbIssueErr(rws, opaque, t) ==
    IF \/ newRefreshTokenID(t) \in DOMAIN rws
       \/ \E id \in DOMAIN rws : rws[id].TokenHash = hashOpaque(opaque)
    THEN "refresh_store.issue: constraint failed"
    ELSE "nil"

\* DatabaseRefreshTokenStore.Issue: the table after the call
DbIssue(rws, user, expiresUnix, previousTokenID, opaque, t) ==
    IF DbIssueErr(rws, opaque, t) # "nil" THEN rws
    ELSE Put(rws, newRefreshTokenID(t),
             refreshTokenRecord(newRefreshTokenID(t), user, hashOpaque(opaque),
                                expiresUnix, previousTokenID, t))

\* DatabaseRefreshTokenStore.Validate
DbValidate(rws, opaque, t) ==
    IF IsBlank(opaque) THEN ValidateFailure("ErrRefreshTokenEmptyOpaque")
    ELSE IF ~ \E id \in DOMAIN rws : rws[id].TokenHash = hashOpaque(opaque)
    THEN ValidateFailure("ErrRefreshTokenNotFound")
    ELSE LET record == rws[CHOOSE id \in DOMAIN rws : rws[id].TokenHash = hashOpaque(opaque)] IN
         IF record.RevokedAtUnix # 0 THEN ValidateFailure("ErrRefreshTokenRevoked")
         ELSE IF record.ExpiresUnix < t THEN ValidateFailure("ErrRefreshTokenExpired")
         ELSE [err |-> "nil", UserID |-> record.UserID, TokenID |-> record.TokenID,
               ExpiresUnix |-> record.ExpiresUnix]

\* the count of an update whose WHERE clause names the token id only
DbRevokeRowsMatched(rws, tokenID) == IF tokenID \in DOMAIN rws THEN 1 ELSE 0

\* DatabaseRefreshTokenStore.Revoke: RowsAffected of the conditional update
DbRevokeRowsAffected(rws, tokenID) ==
    IF tokenID \in DOMAIN rws /\ rws[tokenID].RevokedAtUnix = 0 THEN 1 ELSE 0

DbRevokeUpdateUnconditional(rws, tokenID, t) ==
    IF tokenID \in DOMAIN rws
    THEN [rws EXCEPT ![tokenID].RevokedAtUnix = t]
    ELSE rws

\* DatabaseRefreshTokenStore.Revoke: the table after the conditional update
DbRevokeUpdate(rws, tokenID, t) ==
    IF DbRevokeRowsAffected(rws, tokenID) = 1
    THEN [rws EXCEPT ![tokenID].RevokedAtUnix = t]
    ELSE rws

\* DatabaseRefreshTokenStore.Revoke: the read made when no row was affected
DbRevokeFind(rws, tokenID) ==
    IF tokenID \notin DOMAIN rws THEN "ErrRefreshTokenNotFound"
    ELSE IF rws[tokenID].RevokedAtUnix # 0 THEN "ErrRefreshTokenAlreadyRevoked"
    ELSE "nil"

\* DatabaseRefreshTokenStore.Revoke called with no other statement in between
DbRevokeErr(rws, tokenID) ==
    IF DbRevokeRowsAffected(rws, tokenID) = 1 THEN "nil" ELSE DbRevokeFind(rws, tokenID)

\* ---------------------------------------------------------------- clock
Tick ==
    /\ now < MaxTime
    /\ now' = now + 1
    /\ UNCHANGED <<nonceVars, storeVars, directVars, httpVars>>

\* ---------------------------------------------------------------- direct nonce calls
StoreNonceIssue ==
    /\ nonceSeq < MaxNonces
    /\ nonceSeq' = nonceSeq + 1
    /\ entries' = NonceIssue(entries, randomToken(nonceSeq + 1), now)
    /\ nonceLog' = LogIssue(nonceLog, randomToken(nonceSeq + 1), now)
    /\ UNCHANGED <<now, storeVars, directVars, httpVars>>

StoreNonceConsume ==
    \E token \in (1..nonceSeq) \cup {UnknownNonce} :
        /\ entries' = NonceConsume(entries, token, now)
        /\ nonceLog' = LogConsume(nonceLog, token, now, NonceConsumeErr(entries, token, now))
        /\ UNCHANGED <<now, nonceSeq, storeVars, directVars, httpVars>>

\* ---------------------------------------------------------------- direct refresh store calls
\* The same call is made on both stores at the same clock reading, as the
\* shared test of the two stores does; an argument names a token by the
\* Issue call that returned it (0: the empty string, one past the last: a
\* value no Issue call returned).
OpaqueArg(k, store) ==
    IF k = 0 THEN BlankString
    ELSE IF k > Len(issued) THEN UnknownOpaque
    ELSE issued[k][store].opaque

TokenIDArg(k, store) ==
    IF k = 0 THEN NoTokenID
    ELSE IF k > Len(issued) THEN UnknownTokenID
    ELSE issued[k][store].id

RevokedAt(table, tokenID) ==
    IF tokenID \in DOMAIN table THEN table[tokenID].RevokedAtUnix ELSE -1

DirectIssue ==
    \E user \in 1..NumUsers, expiresUnix \in {now - 1, now + 1} :
        LET p == Len(issued)
            opaque == generateRefreshOpaque(randSeq + 1)
            dbErr == DbIssueErr(rows, opaque, now)
        IN
        /\ Len(issued) < MaxDirect
        /\ randSeq < MaxTokens
        /\ randSeq' = randSeq + 1
        /\ sequenceID' = sequenceID + 1
        /\ byID' = MemIssueByID(byID, sequenceID, user, expiresUnix,
                                TokenIDArg(p, "mem"), opaque, now)
        /\ byHash' = MemIssueByHash(byHash, sequenceID, opaque, now)
        /\ rows' = DbIssue(rows, user, expiresUnix, TokenIDArg(p, "db"), opaque, now)
        /\ issued' = Append(issued,
                [mem |-> [id |-> nextID(sequenceID + 1, now), opaque |-> opaque],
                 db |-> IF dbErr = "nil"
                        THEN [id |-> newRefreshTokenID(now), opaque |-> opaque]
                        ELSE [id |-> NoTokenID, opaque |-> BlankString]])
        /\ call' = [op |-> "Issue", k |-> Len(issued) + 1, at |-> now,
                    memErr |-> "nil", dbErr |-> dbErr]
        /\ UNCHANGED <<now, nonceVars, jar, httpVars>>

DirectValidate ==
    \E k \in 0..(Len(issued) + 1) :
        LET memRes == MemValidate(byID, byHash, OpaqueArg(k, "mem"), now)
            dbRes == DbValidate(rows, OpaqueArg(k, "db"), now)
        IN
        /\ call' = [op |-> "Validate", k |-> k, at |-> now,
                    memArg |-> OpaqueArg(k, "mem"), dbArg |-> OpaqueArg(k, "db"),
                    mem |-> memRes, db |-> dbRes,
                    memErr |-> memRes.err, dbErr |-> dbRes.err]
        /\ UNCHANGED <<now, nonceVars, storeVars, issued, jar, httpVars>>

DirectRevoke ==
    \E k \in 0..(Len(issued) + 1) :
        LET memID == TokenIDArg(k, "mem")
            dbID == TokenIDArg(k, "db")
        IN
        /\ byID' = MemRevoke(byID, memID, now)
        /\ rows' = DbRevokeUpdate(rows, dbID, now)
        /\ call' = [op |-> "Revoke", k |-> k, at |-> now,
                    memArg |-> memID, dbArg |-> dbID,
                    memErr |-> MemRevokeErr(byID, memID),
                    dbErr |-> DbRevokeErr(rows, dbID),
                    memBefore |-> RevokedAt(byID, memID),
                    dbBefore |-> RevokedAt(rows, dbID),
                    memAfter |-> RevokedAt(MemRevoke(byID, memID, now), memID),
                    dbAfter |-> RevokedAt(DbRevokeUpdate(rows, dbID, now), dbID),
                    memSame |-> (MemRevoke(byID, memID, now) = byID),
                    dbSame |-> (DbRevokeUpdate(rows, dbID, now) = rows)]
        /\ UNCHANGED <<now, nonceVars, byHash, sequenceID, randSeq, issued, jar, httpVars>>

\* ---------------------------------------------------------------- the store behind the routes
\* RefreshTokenStore.Validate of the store main.go wired in
StoreValidate(opaque, t) ==
    IF backend = "memory" THEN MemValidate(byID, byHash, opaque, t)
    ELSE DbValidate(rows, opaque, t)

\* RefreshTokenStore.Issue: the error returned
StoreIssueErr(opaque, t) ==
    IF backend = "memory" THEN "nil" ELSE DbIssueErr(rows, opaque, t)

\* RefreshTokenStore.Issue: the effect on the store
StoreIssue(user, expiresUnix, previousTokenID, opaque, t) ==
    IF backend = "memory"
    THEN /\ byID' = MemIssueByID(byID, sequenceID, user, expiresUnix, previousTokenID, opaque, t)
         /\ byHash' = MemIssueByHash(byHash, sequenceID, opaque, t)
         /\ sequenceID' = sequenceID + 1
         /\ UNCHANGED rows
    ELSE /\ rows' = DbIssue(rows, user, expiresUnix, previousTokenID, opaque, t)
         /\ UNCHANGED memVars

\* errors.Is(revokeErr, ErrRefreshTokenAlreadyRevoked)
IsAlreadyRevoked(err) == err = "ErrRefreshTokenAlreadyRevoked"

\* whether a statement sent to the database may come back with an error
\* (result.Error, findErr): never for the in-memory store
StatementFails == IF backend = "memory" THEN {FALSE} ELSE BOOLEAN

\* DatabaseRefreshTokenStore.Issue: the wrapped error of a failed Create
DbIssueFailure == "refresh_store.issue: statement failed"

\* DatabaseRefreshTokenStore.Revoke: the wrapped error of a failed statement
DbRevokeFailure == "refresh_store.revoke: statement failed"

\* ---------------------------------------------------------------- users
GoogleUserPrefix == 10

\* InMemoryUsers.UpsertGoogleUser: "google:" + googleSub
applicationUserID(googleSub) == GoogleUserPrefix + googleSub

\* InMemoryUsers.GetUserProfile: the error returned
GetUserProfileErr(us, user) == IF user \in us THEN "nil" ELSE "ErrUserNotFound"

\* ---------------------------------------------------------------- requests
Slots == 1..MaxRequests

\* a request: what it carried in, the handler's local variables while it
\* runs, and the response; stage is the step of the handler that ended it;
\* steps is the history of the calls the refresh handler has made, metrics
\* that of the counters the handler has incremented
NewRequest(kind, pc) ==
    [kind |-> kind, pc |-> pc, stage |-> "", nonce |-> BlankString, cookie |-> BlankString,
     user |-> BlankString, tokenID |-> NoTokenID, newOpaque |-> BlankString,
     status |-> 0, error |-> "", warning |-> "", steps |-> <<>>, metrics |-> <<>>,
     setSession |-> FALSE, setRefresh |-> BlankString, cleared |-> FALSE]

Idle == NewRequest("idle", "idle")

Free(r) == req[r].pc = "idle"

\* the response AbortWithStatus / AbortWithStatusJSON: no cookie written
Abort(rec, status, error, stage) ==
    [NewRequest(rec.kind, "done") EXCEPT !.nonce = rec.nonce, !.cookie = rec.cookie,
                                         !.status = status, !.error = error,
                                         !.stage = stage, !.steps = rec.steps,
                                         !.metrics = rec.metrics]

metricAuthLoginSuccess == "auth.login.success"

metricAuthLoginFailure == "auth.login.failure"

metricAuthRefreshSuccess == "auth.refresh.success"

metricAuthRefreshFailure == "auth.refresh.failure"

metricAuthLogoutSuccess == "auth.logout.success"

\* recordMetric when no recorder was provided
recordMetricNil(rec, event) == rec

\* recordMetric, with the recorder main.go provides: the counter of the
\* event goes up by one
recordMetric(rec, event) == [rec EXCEPT !.metrics = Append(@, event)]

\* a failing step of /auth/google: failure counter, then the abort
LoginFail(rec, status, error, stage) ==
    Abort(recordMetric(rec, metricAuthLoginFailure), status, error, stage)

\* a failing step of /auth/refresh: failure counter, then the abort
RefreshFail(rec, status, error, stage) ==
    Abort(recordMetric(rec, metricAuthRefreshFailure), status, error, stage)

\* the request after the handler made one more call
Did(rec, step) == [rec EXCEPT !.steps = Append(@, step)]

\* slot r after a step that left its request as rec, and the last response
Step(r, rec) ==
    IF rec.pc = "done"
    THEN req' = [req EXCEPT ![r] = Idle] /\ last' = rec
    ELSE req' = [req EXCEPT ![r] = rec] /\ UNCHANGED last

\* POST /auth/nonce
NonceRequest ==
    /\ nonceSeq < MaxNonceRequests
    /\ nonceSeq' = nonceSeq + 1
    /\ entries' = NonceIssue(entries, randomToken(nonceSeq + 1), now)
    /\ passed' = Put(passed, randomToken(nonceSeq + 1), 0)
    /\ UNCHANGED <<now, nonceLog, storeVars, directVars, backend, users, req, last,
                   delivered, rotations>>

\* ---------------------------------------------------------------- POST /auth/google
Issuers == {"https://accounts.google.com", "accounts.google.com", "https://evil.example", ""}

\* the claims of a verified Google token
Payloads(nonceToken) ==
    [iss : Issuers, sub : 0..NumUsers, email : {BlankString, 1},
     email_verified : BOOLEAN,
     nonce : {BlankString, nonceToken, hashOpaque(nonceToken), UnknownNonce,
              hashOpaque(UnknownNonce)}]

\* what the request meets after the nonce check: whether it counts as HTTPS
\* (or insecure HTTP is allowed), whether the Google validator accepts the
\* token, and the claims the validator returns
Verifications(nonceToken) ==
    [https : {FALSE}, valid : {FALSE}, payload : {CHOOSE p \in Payloads(nonceToken) : TRUE}]
    \cup [https : {TRUE}, valid : {FALSE}, payload : {CHOOSE p \in Payloads(nonceToken) : TRUE}]
    \cup [https : {TRUE}, valid : {TRUE}, payload : Payloads(nonceToken)]

\* binding checks that accept the nonce claim in its raw form only
BindingResultRawOnly(payload, nonceToken) ==
    IF payload.iss # "https://accounts.google.com" /\ payload.iss # "accounts.google.com"
    THEN "invalid_issuer"
    ELSE IF payload.nonce # nonceToken THEN "invalid_nonce"
    ELSE IF payload.sub = BlankString \/ payload.email = BlankString \/ ~payload.email_verified
    THEN "unverified_identity"
    ELSE "ok"

\* the checks made on the claims, in the handler's order: the error code of
\* the first failing one, or "ok"
BindingResult(payload, nonceToken) ==
    IF payload.iss # "https://accounts.google.com" /\ payload.iss # "accounts.google.com"
    THEN "invalid_issuer"
    ELSE IF payload.nonce = BlankString THEN "invalid_nonce"
    ELSE IF payload.nonce # nonceToken /\ payload.nonce # hashOpaque(nonceToken)
    THEN "invalid_nonce"
    ELSE IF payload.sub = BlankString \/ payload.email = BlankString \/ ~payload.email_verified
    THEN "unverified_identity"
    ELSE "ok"

\* the handler after a successful nonce check: HTTPS required, Google token
\* validated, claims checked, user upserted
LoginVerified(start, v) ==
    IF ~v.https THEN LoginFail(start, 400, "https_required", "https")
    ELSE IF ~v.valid THEN LoginFail(start, 401, "invalid_google_token", "validator")
    ELSE IF BindingResult(v.payload, start.nonce) # "ok"
    THEN LoginFail(start, 401, BindingResult(v.payload, start.nonce), "binding")
    ELSE IF IsBlank(applicationUserID(v.payload.sub)) THEN LoginFail(start, 500, "", "upsert")
    ELSE [start EXCEPT !.pc = "issue", !.user = applicationUserID(v.payload.sub)]

\* a handler that never stores the user
UpsertedNever(us, rec) == us

\* InMemoryUsers.UpsertGoogleUser, reached only by a request that passed
\* every check before it
Upserted(us, rec) == IF rec.pc = "issue" THEN us \cup {rec.user} ELSE us

\* a handler that requires HTTPS before it consumes the nonce
LoginBeginHTTPSFirst(r) ==
    \E idTokenBlank \in BOOLEAN,
       nonceToken \in (1..nonceSeq) \cup {BlankString, UnknownNonce} :
        LET start == [NewRequest("login", "begin") EXCEPT !.nonce = nonceToken]
            consumeErr == NonceConsumeErr(entries, nonceToken, now)
        IN
        /\ Free(r)
        /\ IF idTokenBlank
           THEN /\ Step(r, LoginFail(start, 400, "invalid_json", "body"))
                /\ UNCHANGED <<entries, passed, users>>
           ELSE IF IsBlank(nonceToken)
           THEN /\ Step(r, LoginFail(start, 400, "missing_nonce", "body"))
                /\ UNCHANGED <<entries, passed, users>>
           ELSE \E rec \in {LoginVerified(start, v) : v \in Verifications(nonceToken)} :
                IF rec.stage = "https"
                THEN /\ Step(r, rec)
                     /\ UNCHANGED <<entries, passed, users>>
                ELSE /\ entries' = NonceConsume(entries, nonceToken, now)
                     /\ IF consumeErr # "nil"
                        THEN /\ Step(r, LoginFail(start, 401, "invalid_nonce", "nonce"))
                             /\ UNCHANGED <<passed, users>>
                        ELSE /\ passed' = [passed EXCEPT ![nonceToken] = @ + 1]
                             /\ Step(r, rec)
                             /\ users' = Upserted(users, rec)
        /\ UNCHANGED <<now, nonceSeq, nonceLog, storeVars, directVars, backend, delivered,
                       rotations>>

\* body bound, google_id_token and nonce_token checked, nonce consumed,
\* then the steps of LoginVerified
LoginBegin(r) ==
    \E idTokenBlank \in BOOLEAN,
       nonceToken \in (1..nonceSeq) \cup {BlankString, UnknownNonce} :
        LET start == [NewRequest("login", "begin") EXCEPT !.nonce = nonceToken]
            consumeErr == NonceConsumeErr(entries, nonceToken, now)
        IN
        /\ Free(r)
        /\ IF idTokenBlank
           THEN /\ Step(r, LoginFail(start, 400, "invalid_json", "body"))
                /\ UNCHANGED <<entries, passed, users>>
           ELSE IF IsBlank(nonceToken)
           THEN /\ Step(r, LoginFail(start, 400, "missing_nonce", "body"))
                /\ UNCHANGED <<entries, passed, users>>
           ELSE /\ entries' = NonceConsume(entries, nonceToken, now)
                /\ IF consumeErr # "nil"
                   THEN /\ Step(r, LoginFail(start, 401, "invalid_nonce", "nonce"))
                        /\ UNCHANGED <<passed, users>>
                   ELSE /\ passed' = [passed EXCEPT ![nonceToken] = @ + 1]
                        /\ \E rec \in {LoginVerified(start, v) : v \in Verifications(nonceToken)} :
                            /\ Step(r, rec)
                            /\ users' = Upserted(users, rec)
        /\ UNCHANGED <<now, nonceSeq, nonceLog, storeVars, directVars, backend, delivered,
                       rotations>>

\* a deadline computed from the session lifetime
refreshDeadlineSessionTTL(clockNow) == clockNow + SessionTTL

\* refreshDeadline := clock.Now().UTC().Add(configuration.RefreshTTL), in
\* the login and the refresh handler
refreshDeadline(clockNow) == clockNow + RefreshTTL

\* session minted, refresh token issued, cookies written
LoginIssue(r) ==
    /\ req[r].kind = "login" /\ req[r].pc = "issue"
    /\ randSeq < MaxTokens
    /\ LET refreshOpaque == generateRefreshOpaque(randSeq + 1)
       IN
       /\ randSeq' = randSeq + 1
       /\ \E failed \in StatementFails :
           IF failed
           THEN /\ Step(r, LoginFail(req[r], 500, "", "issue"))
                /\ UNCHANGED <<memVars, rows, delivered, rotations>>
           ELSE /\ StoreIssue(req[r].user, refreshDeadline(now), NoTokenID, refreshOpaque, now)
                /\ IF StoreIssueErr(refreshOpaque, now) # "nil" \/ IsBlank(refreshOpaque)
                   THEN /\ Step(r, LoginFail(req[r], 500, "", "issue"))
                        /\ UNCHANGED <<delivered, rotations>>
                   ELSE /\ Step(r, [recordMetric(req[r], metricAuthLoginSuccess)
                                      EXCEPT !.stage = "cookies", !.pc = "done",
                                             !.status = 200, !.setSession = TRUE,
                                             !.setRefresh = refreshOpaque])
                        /\ delivered' = delivered \cup {refreshOpaque}
                        /\ rotations' = Put(rotations, refreshOpaque, 0)
    /\ UNCHANGED <<now, nonceVars, directVars, backend, users, passed>>

\* ---------------------------------------------------------------- POST /auth/refresh
\* the refresh cookies a request may carry: one a client was given, none, or
\* a value the service never issued
Cookies == delivered \cup {BlankString, UnknownOpaque}

\* a handler that trusts the store's Validate and does not look at the expiry
RefreshCheckedNoExpiry(start, res, clockNow, us) ==
    LET validated == Did(start, "Validate")
        loaded == Did(validated, "GetUserProfile")
        minted == Did(loaded, "MintAppJWT")
    IN
    IF IsBlank(start.cookie) THEN RefreshFail(start, 401, "", "cookie")
    ELSE IF res.err # "nil" THEN RefreshFail(validated, 401, "", "validate")
    ELSE IF GetUserProfileErr(us, res.UserID) # "nil"
    THEN RefreshFail(loaded, 401, "", "profile")
    ELSE IF IsBlank(res.UserID) THEN RefreshFail(minted, 500, "", "mint")
    ELSE [minted EXCEPT !.pc = "issue", !.user = res.UserID, !.tokenID = res.TokenID]

\* the /auth/refresh handler up to the minted session, given what the
\* store's Validate returned and what the handler's clock reads: cookie
\* read, token validated, expiry compared with the clock, profile loaded,
\* session minted
RefreshChecked(start, res, clockNow, us) ==
    LET validated == Did(start, "Validate")
        compared == Did(validated, "expiry")
        loaded == Did(compared, "GetUserProfile")
        minted == Did(loaded, "MintAppJWT")
    IN
    IF IsBlank(start.cookie) THEN RefreshFail(start, 401, "", "cookie")
    ELSE IF res.err # "nil" THEN RefreshFail(validated, 401, "", "validate")
    ELSE IF res.ExpiresUnix < clockNow THEN RefreshFail(compared, 401, "", "expired")
    ELSE IF GetUserProfileErr(us, res.UserID) # "nil"
    THEN RefreshFail(loaded, 401, "", "profile")
    ELSE IF IsBlank(res.UserID) THEN RefreshFail(minted, 500, "", "mint")
    ELSE [minted EXCEPT !.pc = "issue", !.user = res.UserID, !.tokenID = res.TokenID]

\* a refresh request arrives; the store and the handler read one clock
RefreshBegin(r) ==
    \E cookie \in Cookies :
        LET start == [NewRequest("refresh", "begin") EXCEPT !.cookie = cookie]
            res == StoreValidate(cookie, now)
        IN
        /\ Free(r)
        /\ Step(r, RefreshChecked(start, res, now, users))
        /\ UNCHANGED <<now, nonceVars, storeVars, directVars, backend, users, delivered,
                       rotations, passed>>

\* new refresh token issued, linked to the validated one
RefreshIssue(r) ==
    /\ req[r].kind = "refresh" /\ req[r].pc = "issue"
    /\ randSeq < MaxTokens
    /\ LET newOpaque == generateRefreshOpaque(randSeq + 1)
       IN
       /\ randSeq' = randSeq + 1
       /\ \E failed \in StatementFails :
           IF failed
           THEN /\ Step(r, RefreshFail(Did(req[r], "Issue"), 500, "", "issue"))
                /\ UNCHANGED <<memVars, rows>>
           ELSE /\ StoreIssue(req[r].user, refreshDeadline(now), req[r].tokenID, newOpaque, now)
                /\ Step(r, IF StoreIssueErr(newOpaque, now) # "nil" \/ IsBlank(newOpaque)
                           THEN RefreshFail(Did(req[r], "Issue"), 500, "", "issue")
                           ELSE [Did(req[r], "Issue") EXCEPT !.pc = "revoke",
                                                            !.newOpaque = newOpaque])
    /\ UNCHANGED <<now, nonceVars, directVars, backend, users, delivered, rotations, passed>>

\* a refresh handler that answers 204 whatever Revoke returned
RefreshFinishTolerant(rec, revokeErr) ==
    [recordMetric(rec, metricAuthRefreshSuccess)
        EXCEPT !.stage = "cookies", !.pc = "done", !.status = 204,
                !.setSession = TRUE, !.setRefresh = rec.newOpaque,
                !.newOpaque = BlankString, !.steps = Append(@, "cookies"),
                !.warning = IF revokeErr # "nil" /\ ~IsAlreadyRevoked(revokeErr)
                            THEN revokeErr ELSE ""]

\* the end of the refresh handler, given what Revoke returned
RefreshFinish(rec, revokeErr) ==
    IF revokeErr # "nil" /\ ~IsAlreadyRevoked(revokeErr)
    THEN [RefreshFail(rec, 500, "", "revoke") EXCEPT !.warning = revokeErr, !.tokenID = rec.tokenID]
    ELSE [recordMetric(rec, metricAuthRefreshSuccess)
             EXCEPT !.stage = "cookies", !.pc = "done", !.status = 204,
                    !.setSession = TRUE, !.setRefresh = rec.newOpaque,
                    !.newOpaque = BlankString, !.steps = Append(@, "cookies")]

\* the cookies of a refresh response reach the client
RefreshAnswer(r, rec) ==
    /\ Step(r, rec)
    /\ IF rec.pc = "done" /\ rec.status = 204
       THEN /\ delivered' = delivered \cup {rec.setRefresh}
            /\ rotations' = Put([rotations EXCEPT ![rec.cookie] = @ + 1], rec.setRefresh, 0)
       ELSE UNCHANGED <<delivered, rotations>>

\* previous token revoked: the in-memory Revoke, or the conditional update of
\* the database Revoke
RefreshRevoke(r) ==
    /\ req[r].kind = "refresh" /\ req[r].pc = "revoke"
    /\ \E failed \in StatementFails :
        IF backend = "memory"
        THEN /\ byID' = MemRevoke(byID, req[r].tokenID, now)
             /\ RefreshAnswer(r, RefreshFinish(Did(req[r], "Revoke"),
                                               MemRevokeErr(byID, req[r].tokenID)))
             /\ UNCHANGED rows
        ELSE IF failed
        THEN /\ RefreshAnswer(r, RefreshFinish(Did(req[r], "Revoke"), DbRevokeFailure))
             /\ UNCHANGED <<byID, rows>>
        ELSE /\ rows' = DbRevokeUpdate(rows, req[r].tokenID, now)
             /\ RefreshAnswer(r, IF DbRevokeRowsAffected(rows, req[r].tokenID) = 1
                                 THEN RefreshFinish(Did(req[r], "Revoke"), "nil")
                                 ELSE [Did(req[r], "Revoke") EXCEPT !.pc = "revoke_find"])
             /\ UNCHANGED byID
    /\ UNCHANGED <<now, nonceVars, byHash, sequenceID, randSeq, directVars, backend, users,
                   passed>>

\* the database Revoke reads the record after an update that changed no row
RefreshRevokeFind(r) ==
    /\ req[r].kind = "refresh" /\ req[r].pc = "revoke_find"
    /\ \E failed \in StatementFails :
        RefreshAnswer(r, RefreshFinish(req[r], IF failed THEN DbRevokeFailure
                                               ELSE DbRevokeFind(rows, req[r].tokenID)))
    /\ UNCHANGED <<now, nonceVars, storeVars, directVars, backend, users, passed>>

\* ---------------------------------------------------------------- POST /auth/logout
\* a logout handler that gives up when Revoke returns an error
LogoutFinishStrict(rec, revokeErr) ==
    IF revokeErr # "nil" /\ ~IsAlreadyRevoked(revokeErr)
    THEN [Abort(rec, 500, "", "revoke") EXCEPT !.warning = revokeErr]
    ELSE [recordMetric(rec, metricAuthLogoutSuccess)
             EXCEPT !.stage = "cookies", !.pc = "done", !.status = 204, !.cleared = TRUE]

\* a Revoke error other than ErrRefreshTokenAlreadyRevoked is logged as a
\* warning; both cookies cleared, 204
LogoutFinish(rec, revokeErr) ==
    [recordMetric(rec, metricAuthLogoutSuccess)
        EXCEPT !.stage = "cookies", !.pc = "done", !.status = 204, !.cleared = TRUE,
                !.warning = IF revokeErr # "nil" /\ ~IsAlreadyRevoked(revokeErr)
                            THEN revokeErr ELSE ""]

\* cookie read and, when present, validated
LogoutBegin(r) ==
    \E cookie \in Cookies :
        LET start == [NewRequest("logout", "begin") EXCEPT !.cookie = cookie]
            res == StoreValidate(cookie, now)
        IN
        /\ Free(r)
        /\ Step(r, IF IsBlank(cookie) THEN LogoutFinish(start, "nil")
                   ELSE IF res.err = "nil" /\ res.TokenID # NoTokenID
                   THEN [start EXCEPT !.pc = "revoke", !.tokenID = res.TokenID]
                   ELSE LogoutFinish(start, "nil"))
        /\ UNCHANGED <<now, nonceVars, storeVars, directVars, backend, users, delivered,
                       rotations, passed>>

\* token revoked, best effort
LogoutRevoke(r) ==
    /\ req[r].kind = "logout" /\ req[r].pc = "revoke"
    /\ \E failed \in StatementFails :
        IF backend = "memory"
        THEN /\ byID' = MemRevoke(byID, req[r].tokenID, now)
             /\ Step(r, LogoutFinish(req[r], MemRevokeErr(byID, req[r].tokenID)))
             /\ UNCHANGED rows
        ELSE IF failed
        THEN /\ Step(r, LogoutFinish(req[r], DbRevokeFailure))
             /\ UNCHANGED <<byID, rows>>
        ELSE /\ rows' = DbRevokeUpdate(rows, req[r].tokenID, now)
             /\ Step(r, IF DbRevokeRowsAffected(rows, req[r].tokenID) = 1
                        THEN LogoutFinish(req[r], "nil")
                        ELSE [req[r] EXCEPT !.pc = "revoke_find"])
             /\ UNCHANGED byID
    /\ UNCHANGED <<now, nonceVars, byHash, sequenceID, randSeq, directVars, backend, users,
                   delivered, rotations, passed>>

LogoutRevokeFind(r) ==
    /\ req[r].kind = "logout" /\ req[r].pc = "revoke_find"
    /\ \E failed \in StatementFails :
        Step(r, LogoutFinish(req[r], IF failed THEN DbRevokeFailure
                                     ELSE DbRevokeFind(rows, req[r].tokenID)))
    /\ UNCHANGED <<now, nonceVars, storeVars, directVars, backend, users, delivered,
                   rotations, passed>>

InitCommon ==
    /\ now = 1
    /\ entries = <<>>
    /\ nonceSeq = 0
    /\ nonceLog = <<>>
    /\ byID = <<>>
    /\ byHash = <<>>
    /\ sequenceID = 0
    /\ rows = <<>>
    /\ randSeq = 0
    /\ issued = <<>>
    /\ call = [op |-> "none"]
    /\ users = {}
    /\ req = [r \in 1..MaxRequests |-> Idle]
    /\ last = Idle
    /\ delivered = {}
    /\ rotations = <<>>
    /\ passed = <<>>
    /\ jar = <<>>

InitNonce == InitCommon /\ backend = "memory"

NextNonce == Tick \/ StoreNonceIssue \/ StoreNonceConsume

SpecNonce == InitNonce /\ [][NextNonce]_vars

InitStore == InitCommon /\ backend = "memory"

NextStore == Tick \/ DirectIssue \/ DirectValidate \/ DirectRevoke

SpecStore == InitStore /\ [][NextStore]_vars

\* the /auth/google handler applied to a request that passed the nonce check
\* and carries a Google token the validator accepts
Bind ==
    /\ \E nonceToken \in 1..MaxNonces :
        \E payload \in Payloads(nonceToken) :
            LET start == [NewRequest("login", "begin") EXCEPT !.nonce = nonceToken]
                rec == LoginVerified(start, [https |-> TRUE, valid |-> TRUE,
                                             payload |-> payload])
            IN call' = [op |-> "Bind", payload |-> payload, nonceToken |-> nonceToken,
                        result |-> BindingResult(payload, nonceToken),
                        proceeds |-> rec.pc = "issue", status |-> rec.status,
                        error |-> rec.error]
    /\ UNCHANGED <<now, nonceVars, storeVars, issued, jar, httpVars>>

InitBinding == InitCommon /\ backend = "memory"

NextBinding == Bind

SpecBinding == InitBinding /\ [][NextBinding]_vars

\* ---------------------------------------------------------------- a burst of Issue calls
\* MemoryRefreshTokenStore.Issue called again and again while time.Now
\* returns one value (a clock of coarse resolution, or one stepped back), the
\* first token being revoked at some point; the n-th call is made for user
\* BurstUser(n)
MaxBurst == 256

BurstUser(n) == 1 + (n % NumUsers)

BurstIssue ==
    LET opaque == generateRefreshOpaque(randSeq + 1)
        user == BurstUser(randSeq + 1)
    IN
    /\ Len(issued) < MaxBurst
    /\ randSeq' = randSeq + 1
    /\ sequenceID' = sequenceID + 1
    /\ byID' = MemIssueByID(byID, sequenceID, user, now + RefreshTTL, NoTokenID, opaque, now)
    /\ byHash' = MemIssueByHash(byHash, sequenceID, opaque, now)
    /\ issued' = Append(issued, [id |-> nextID(sequenceID + 1, now), opaque |-> opaque,
                                 user |-> user])
    /\ UNCHANGED <<now, nonceVars, rows, call, jar, httpVars>>

BurstRevoke ==
    /\ Len(issued) >= 1
    /\ MemRevoke(byID, issued[1].id, now) # byID
    /\ byID' = MemRevoke(byID, issued[1].id, now)
    /\ UNCHANGED <<now, nonceVars, byHash, sequenceID, rows, randSeq, directVars, httpVars>>

InitBurst == InitCommon /\ backend = "memory"

NextBurst == BurstIssue \/ BurstRevoke

SpecBurst == InitBurst /\ [][NextBurst]_vars

\* ---------------------------------------------------------------- the handler's own clock
\* The stores read time.Now; the refresh handler reads the clock given to
\* ProvideClock, and reads it after Validate has returned.  Here tokens are
\* put into the store by direct Issue calls and a refresh request is taken
\* up to its minted session with the handler's clock at any reading.
StoreName == IF backend = "memory" THEN "mem" ELSE "db"

RefreshAtClock ==
    \E k \in 1..Len(issued), clockNow \in 1..(MaxTime + 1), us \in {{}, 1..NumUsers} :
        LET cookie == OpaqueArg(k, StoreName)
            start == [NewRequest("refresh", "begin") EXCEPT !.cookie = cookie]
            res == StoreValidate(cookie, now)
        IN
        /\ call' = [op |-> "RefreshAtClock", k |-> k, at |-> now, clock |-> clockNow,
                    res |-> res, response |-> RefreshChecked(start, res, clockNow, us)]
        /\ UNCHANGED <<now, nonceVars, storeVars, issued, jar, httpVars>>

InitClock == InitCommon /\ backend \in {"memory", "database"}

NextClock == Tick \/ DirectIssue \/ RefreshAtClock

SpecClock == InitClock /\ [][NextClock]_vars

\* ---------------------------------------------------------------- the HTTPS requirement
\* what isHTTPS reads of a request: whether it came over TLS, the
\* X-Forwarded-Proto and Forwarded headers, and the Host, which
\* net.SplitHostPort splits only when it carries a port
Origins ==
    [tls : BOOLEAN,
     xForwardedProto : {"", "http", "https", "HTTPS"},
     forwarded : {"", "for=192.0.2.1;proto=http", "for=192.0.2.1;proto=https",
                  "for=192.0.2.1;Proto=HTTPS"},
     host : {[name |-> "localhost", port |-> "8080"], [name |-> "localhost", port |-> ""],
             [name |-> "auth.example.com", port |-> ""],
             [name |-> "127.0.0.1", port |-> "8080"]}]

\* strings.EqualFold(scheme, "https")
EqualFoldHTTPS(scheme) == scheme \in {"https", "HTTPS"}

\* strings.Contains(strings.ToLower(forwarded), "proto=https")
ContainsProtoHTTPS(forwarded) ==
    forwarded \in {"for=192.0.2.1;proto=https", "for=192.0.2.1;Proto=HTTPS"}

\* a check that looks at the connection only
isHTTPSTLSOnly(origin) == origin.tls

\* isHTTPS
isHTTPS(origin) ==
    IF origin.tls THEN TRUE
    ELSE IF EqualFoldHTTPS(origin.xForwardedProto) THEN TRUE
    ELSE IF origin.forwarded # "" /\ ContainsProtoHTTPS(origin.forwarded) THEN TRUE
    ELSE IF origin.host.port # "" /\ origin.host.name = "localhost" THEN TRUE
    ELSE FALSE

\* the /auth/google handler up to the user upsert, for a request of a given
\* origin: body, nonce_token, nonces.Consume, then the steps of LoginVerified
LoginResponse(start, idTokenBlank, consumeErr, v) ==
    IF idTokenBlank THEN LoginFail(start, 400, "invalid_json", "body")
    ELSE IF IsBlank(start.nonce) THEN LoginFail(start, 400, "missing_nonce", "body")
    ELSE IF consumeErr # "nil" THEN LoginFail(start, 401, "invalid_nonce", "nonce")
    ELSE LoginVerified(start, v)

\* claims every binding check accepts
GoodPayload(nonceToken) ==
    [iss |-> "https://accounts.google.com", sub |-> 1, email |-> 1,
     email_verified |-> TRUE, nonce |-> nonceToken]

\* one /auth/google request, under a configuration with or without
\* AllowInsecureHTTP
LoginFromOrigin ==
    /\ call.op = "none"
    /\ \E origin \in Origins, allowInsecureHTTP \in BOOLEAN, idTokenBlank \in BOOLEAN,
          valid \in BOOLEAN, nonceToken \in {BlankString, randomToken(1), UnknownNonce} :
        LET start == [NewRequest("login", "begin") EXCEPT !.nonce = nonceToken]
            consumeErr == NonceConsumeErr(entries, nonceToken, now)
            v == [https |-> allowInsecureHTTP \/ isHTTPS(origin), valid |-> valid,
                  payload |-> GoodPayload(nonceToken)]
            rec == LoginResponse(start, idTokenBlank, consumeErr, v)
        IN
        /\ entries' = IF idTokenBlank \/ IsBlank(nonceToken) THEN entries
                      ELSE NonceConsume(entries, nonceToken, now)
        /\ users' = Upserted(users, rec)
        /\ call' = [op |-> "Login", origin |-> origin,
                    allowInsecureHTTP |-> allowInsecureHTTP,
                    recognized |-> isHTTPS(origin),
                    response |-> rec, usersBefore |-> users]
    /\ UNCHANGED <<now, nonceSeq, nonceLog, storeVars, issued, jar, backend, req, last,
                   delivered, rotations, passed>>

InitOrigin == InitCommon /\ backend = "memory"

NextOrigin == NonceRequest \/ LoginFromOrigin

SpecOrigin == InitOrigin /\ [][NextOrigin]_vars

\* ---------------------------------------------------------------- concurrent Revoke calls
\* Several goroutines call DatabaseRefreshTokenStore.Revoke with the id of one
\* record.  A call is the conditional UPDATE, then, when no row was affected,
\* the Take; other calls' statements and clock ticks come between the two.
MaxCallers == 3

Callers == 1..MaxCallers

\* the calls made at once: all with the id of one active record
\* ("ConcurrentRevoke"), or all with an id no record has ("RevokeMissing")
RevokeOps == {"ConcurrentRevoke", "RevokeMissing"}

\* a record is issued and the calls start
RevokeStart ==
    /\ call.op = "none"
    /\ randSeq' = randSeq + 1
    /\ rows' = DbIssue(rows, 1, now + RefreshTTL, NoTokenID,
                       generateRefreshOpaque(randSeq + 1), now)
    /\ \E op \in RevokeOps :
       call' = [op |-> op,
                tokenID |-> IF op = "ConcurrentRevoke" THEN newRefreshTokenID(now)
                            ELSE UnknownTokenID,
                pc |-> [c \in Callers |-> "update"],
                err |-> [c \in Callers |-> "pending"],
                writes |-> 0, writtenAt |-> 0]
    /\ UNCHANGED <<now, nonceVars, memVars, issued, jar, httpVars>>

\* the UPDATE ... WHERE token_id = ? AND revoked_at_unix = 0 of one call
RevokeUpdate(c) ==
    /\ call.op \in RevokeOps /\ call.pc[c] = "update"
    /\ \E failed \in StatementFails :
        IF failed
        THEN /\ call' = [call EXCEPT !.pc[c] = "done", !.err[c] = DbRevokeFailure]
             /\ UNCHANGED rows
        ELSE /\ rows' = DbRevokeUpdate(rows, call.tokenID, now)
             /\ call' = [call EXCEPT
                    !.pc[c] = IF DbRevokeRowsAffected(rows, call.tokenID) = 0
                              THEN "find" ELSE "done",
                    !.err[c] = IF DbRevokeRowsAffected(rows, call.tokenID) = 0
                               THEN "pending" ELSE "nil",
                    !.writes = IF DbRevokeUpdate(rows, call.tokenID, now) # rows
                               THEN call.writes + 1 ELSE call.writes,
                    !.writtenAt = IF DbRevokeUpdate(rows, call.tokenID, now) # rows
                                  THEN now ELSE call.writtenAt]
    /\ UNCHANGED <<now, nonceVars, memVars, randSeq, issued, jar, httpVars>>

\* the Take of a call whose UPDATE affected no row
RevokeFind(c) ==
    /\ call.op \in RevokeOps /\ call.pc[c] = "find"
    /\ \E failed \in StatementFails :
        call' = [call EXCEPT !.pc[c] = "done",
                             !.err[c] = IF failed THEN DbRevokeFailure
                                        ELSE DbRevokeFind(rows, call.tokenID)]
    /\ UNCHANGED <<now, nonceVars, storeVars, issued, jar, httpVars>>

InitRevoke == InitCommon /\ backend = "database"

NextRevoke ==
    \/ Tick
    \/ RevokeStart
    \/ \E c \in Callers : RevokeUpdate(c)
    \/ \E c \in Callers : RevokeFind(c)

SpecRevoke == InitRevoke /\ [][NextRevoke]_vars

\* ---------------------------------------------------------------- auth-client.js apiFetch
\* Several apiFetch calls run on one page.  Each call is at one of its awaits
\* ("first": its own request, "refresh": the POST to the refresh endpoint,
\* "retry": its own request sent again), waits in runtime.pendingRequests
\* ("queued"), waits for the request flushPendingRequests sent for it
\* ("resent"), or has settled ("done").  A fetch resolves with a status
\* ("200", "204", "401") or rejects.
MaxCalls == 3

Calls == 1..MaxCalls

\* a page that never queues
QueueNever(isRefreshing) == FALSE

\* if (runtime.isRefreshing) return queueWhileRefreshing(execute)
QueueWhileRefreshing(isRefreshing) == isRefreshing

\* flushPendingRequests(errorObject): with an error every queued call is
\* rejected, without one every queued call's request is sent again
flushPendingRequests(pc, pending, rejected) ==
    [c \in Calls |->
        IF \E i \in 1..Len(pending) : pending[i] = c
        THEN IF rejected THEN "done" ELSE "resent"
        ELSE pc[c]]

\* the requests each call has sent after a flush without an error
SentAfterFlush(sent, pending) ==
    [c \in Calls |->
        sent[c] + Cardinality({i \in 1..Len(pending) : pending[i] = c})]

\* the page is loaded
ClientStart ==
    /\ call.op = "none"
    /\ call' = [op |-> "apiFetch", isRefreshing |-> FALSE, pendingRequests |-> <<>>,
                pc |-> [c \in Calls |-> "idle"], sent |-> [c \in Calls |-> 0],
                refreshes |-> 0]
    /\ UNCHANGED <<now, nonceVars, storeVars, issued, jar, httpVars>>

\* apiFetch is called: var firstResponse = await execute()
FetchFirst(c) ==
    /\ call.op = "apiFetch" /\ call.pc[c] = "idle"
    /\ call' = [call EXCEPT !.pc[c] = "first", !.sent[c] = @ + 1]
    /\ UNCHANGED <<now, nonceVars, storeVars, issued, jar, httpVars>>

\* the first response arrives: returned unless 401; on 401 the call is
\* queued, or sets isRefreshing and posts to the refresh endpoint
FirstResponse(c) ==
    /\ call.op = "apiFetch" /\ call.pc[c] = "first"
    /\ \E outcome \in {"200", "401", "rejected"} :
        call' = IF outcome # "401" THEN [call EXCEPT !.pc[c] = "done"]
                ELSE IF QueueWhileRefreshing(call.isRefreshing)
                THEN [call EXCEPT !.pc[c] = "queued",
                                  !.pendingRequests = Append(@, c)]
                ELSE [call EXCEPT !.pc[c] = "refresh", !.isRefreshing = TRUE,
                                  !.refreshes = @ + 1]
    /\ UNCHANGED <<now, nonceVars, storeVars, issued, jar, httpVars>>

\* the refresh response arrives: on success the call's own request is sent
\* again; otherwise the queue is flushed with an error and the first
\* response returned; a rejected fetch leaves the queue as it is; finally
\* isRefreshing is reset
RefreshResponse(c) ==
    /\ call.op = "apiFetch" /\ call.pc[c] = "refresh"
    /\ \E outcome \in {"204", "401", "rejected"} :
        call' = IF outcome = "204"
                THEN [call EXCEPT !.pc[c] = "retry", !.sent[c] = @ + 1]
                ELSE IF outcome = "401"
                THEN [call EXCEPT
                        !.pc = [flushPendingRequests(call.pc, call.pendingRequests, TRUE)
                                    EXCEPT ![c] = "done"],
                        !.pendingRequests = <<>>, !.isRefreshing = FALSE]
                ELSE [call EXCEPT !.pc[c] = "done", !.isRefreshing = FALSE]
    /\ UNCHANGED <<now, nonceVars, storeVars, issued, jar, httpVars>>

\* the retried request settles: the queue is flushed and the response
\* returned, or the fetch was rejected; finally isRefreshing is reset
RetryResponse(c) ==
    /\ call.op = "apiFetch" /\ call.pc[c] = "retry"
    /\ \E outcome \in {"200", "rejected"} :
        call' = IF outcome = "200"
                THEN [call EXCEPT
                        !.pc = [flushPendingRequests(call.pc, call.pendingRequests, FALSE)
                                    EXCEPT ![c] = "done"],
                        !.sent = SentAfterFlush(call.sent, call.pendingRequests),
                        !.pendingRequests = <<>>, !.isRefreshing = FALSE]
                ELSE [call EXCEPT !.pc[c] = "done", !.isRefreshing = FALSE]
    /\ UNCHANGED <<now, nonceVars, storeVars, issued, jar, httpVars>>

\* the request sent for a queued call settles, and with it the call
ResentResponse(c) ==
    /\ call.op = "apiFetch" /\ call.pc[c] = "resent"
    /\ call' = [call EXCEPT !.pc[c] = "done"]
    /\ UNCHANGED <<now, nonceVars, storeVars, issued, jar, httpVars>>

InitClient == InitCommon /\ backend = "memory"

NextClient ==
    \/ ClientStart
    \/ \E c \in Calls : FetchFirst(c)
    \/ \E c \in Calls : FirstResponse(c)
    \/ \E c \in Calls : RefreshResponse(c)
    \/ \E c \in Calls : RetryResponse(c)
    \/ \E c \in Calls : ResentResponse(c)

SpecClient == InitClient /\ [][NextClient]_vars

\* ---------------------------------------------------------------- session tokens
\* configuration.AppJWTIssuer
AppJWTIssuer == "mprlab-auth"

\* configuration.AppJWTSigningKey
AppJWTSigningKey == "secret-key"

\* a registered claim the token does not carry (a nil *NumericDate)
AbsentClaim == -1

\* clock readings are counted in ticks, this many to the second
TicksPerSecond == 2

\* NotBefore lies this far before IssuedAt (ticks)
NotBeforeSkew == 2

\* jwt.NewNumericDate: the time truncated to whole seconds
NewNumericDate(t) == t - (t % TicksPerSecond)

\* a mint that keeps the clock reading to the tick
MintAppJWTExact(subject, issuer, signingKey, ttl, t) ==
    [raw |-> "jwt", alg |-> "HS256", key |-> signingKey, iss |-> issuer,
     sub |-> subject, iat |-> t, nbf |-> t - NotBeforeSkew, exp |-> t + ttl]

\* MintAppJWT: the signed token, as the fields a parser reads from it
MintAppJWT(subject, issuer, signingKey, ttl, t) ==
    [raw |-> "jwt", alg |-> "HS256", key |-> signingKey, iss |-> issuer,
     sub |-> subject, iat |-> NewNumericDate(t),
     nbf |-> NewNumericDate(t - NotBeforeSkew), exp |-> NewNumericDate(t + ttl)]

\* jwt.ParseWithClaims with WithValidMethods(HS256) and the validator's clock:
\* the token is well formed, its method is HS256, its signature verifies
\* under the key, and exp and nbf, where present, admit the time t (the
\* parser does not look at iat unless asked to);
\* "ok", "expired" (jwt.ErrTokenExpired) or "invalid"
ParseWithClaims(token, signingKey, t) ==
    IF token.raw # "jwt" THEN "invalid"
    ELSE IF token.alg # "HS256" THEN "invalid"
    ELSE IF token.key # signingKey THEN "invalid"
    ELSE IF token.exp # AbsentClaim /\ ~(t < token.exp) THEN "expired"
    ELSE IF token.nbf # AbsentClaim /\ t < token.nbf THEN "invalid"
    ELSE "ok"

\* a validator that does not compare the issuer
ValidateTokenAnyIssuer(token, signingKey, issuer, t) ==
    IF token.raw = "blank" THEN "ErrMissingToken"
    ELSE IF ParseWithClaims(token, signingKey, t) = "expired" THEN "ErrTokenExpired"
    ELSE IF ParseWithClaims(token, signingKey, t) # "ok" THEN "ErrInvalidToken"
    ELSE "nil"

\* a validator that also rejects a token the client no longer holds
ValidateTokenRevocable(token, signingKey, issuer, t) ==
    IF \A key \in DOMAIN jar : key[1] = "app_session" => jar[key].value # token
    THEN "ErrInvalidToken"
    ELSE IF token.raw = "blank" THEN "ErrMissingToken"
    ELSE IF ParseWithClaims(token, signingKey, t) = "expired" THEN "ErrTokenExpired"
    ELSE IF ParseWithClaims(token, signingKey, t) # "ok" THEN "ErrInvalidToken"
    ELSE IF token.iss # issuer THEN "ErrInvalidIssuer"
    ELSE "nil"

\* Validator.ValidateToken: the error returned
ValidateToken(token, signingKey, issuer, t) ==
    IF token.raw = "blank" THEN "ErrMissingToken"
    ELSE IF ParseWithClaims(token, signingKey, t) = "expired" THEN "ErrTokenExpired"
    ELSE IF ParseWithClaims(token, signingKey, t) # "ok" THEN "ErrInvalidToken"
    ELSE IF token.iss # issuer THEN "ErrInvalidIssuer"
    ELSE IF token.exp # AbsentClaim /\ t > token.exp THEN "ErrTokenExpired"
    ELSE IF token.nbf # AbsentClaim /\ t < token.nbf THEN "ErrInvalidToken"
    ELSE IF token.iat # AbsentClaim /\ t < token.iat THEN "ErrInvalidToken"
    ELSE "nil"

\* RequireSession: the status of the response, 200 standing for the next
\* handler being called
RequireSession(token, signingKey, issuer, t) ==
    IF ValidateToken(token, signingKey, issuer, t) # "nil" THEN 401 ELSE 200

\* Validator.ValidateRequest: the error returned for a request that carries
\* the configured cookie with a value, or does not carry it
ValidateRequest(request, signingKey, issuer, t) ==
    IF ~request.hasCookie \/ request.value.raw = "blank" THEN "ErrMissingCookie"
    ELSE ValidateToken(request.value, signingKey, issuer, t)

\* the context of a request no middleware has written to
NoClaims == [set |-> FALSE, sub |-> 0]

\* a middleware that answers 401 and still goes on to the next handler
GinMiddlewareNoReturn(request, signingKey, issuer, t) ==
    IF ValidateRequest(request, signingKey, issuer, t) # "nil"
    THEN [status |-> 401, next |-> TRUE, claims |-> NoClaims]
    ELSE [status |-> 200, next |-> TRUE,
          claims |-> [set |-> TRUE, sub |-> request.value.sub]]

\* Validator.GinMiddleware: the status (200 standing for what the next
\* handler answers), whether the next handler ran, and the claims in the
\* request context
GinMiddleware(request, signingKey, issuer, t) ==
    IF ValidateRequest(request, signingKey, issuer, t) # "nil"
    THEN [status |-> 401, next |-> FALSE, claims |-> NoClaims]
    ELSE [status |-> 200, next |-> TRUE,
          claims |-> [set |-> TRUE, sub |-> request.value.sub]]

\* RequireSession as a request handler: the same three results
RequireSessionHandler(request, signingKey, issuer, t) ==
    IF ValidateRequest(request, signingKey, issuer, t) # "nil"
    THEN [status |-> 401, next |-> FALSE, claims |-> NoClaims]
    ELSE [status |-> 200, next |-> TRUE,
          claims |-> [set |-> TRUE, sub |-> request.value.sub]]

\* the session tokens a request may carry
SessionTokens ==
    [raw : {"blank", "malformed", "jwt"}, alg : {"HS256", "none"},
     key : {AppJWTSigningKey, "other-key"},
     iss : {AppJWTIssuer, "another-issuer", ""}, sub : {1},
     iat : {AbsentClaim, 1, MaxTime}, nbf : {AbsentClaim, 0, MaxTime},
     exp : {AbsentClaim, 1, 2, MaxTime + 1}]

\* ValidateToken and RequireSession applied once to a token at a clock reading
ApplyValidateToken ==
    /\ call.op = "none"
    /\ \E token \in SessionTokens, t \in 1..MaxTime :
        call' = [op |-> "ValidateToken", token |-> token, at |-> t,
                 err |-> ValidateToken(token, AppJWTSigningKey, AppJWTIssuer, t),
                 status |-> RequireSession(token, AppJWTSigningKey, AppJWTIssuer, t)]
    /\ UNCHANGED <<now, nonceVars, storeVars, issued, jar, httpVars>>

\* the requests a protected route may receive
SessionRequests == [hasCookie : BOOLEAN, value : SessionTokens]

\* one request through ValidateRequest, GinMiddleware and RequireSession
ApplyMiddleware ==
    /\ call.op = "none"
    /\ \E request \in SessionRequests, t \in 1..MaxTime :
        call' = [op |-> "Middleware", request |-> request, at |-> t,
                 err |-> ValidateRequest(request, AppJWTSigningKey, AppJWTIssuer, t),
                 gin |-> GinMiddleware(request, AppJWTSigningKey, AppJWTIssuer, t),
                 require |-> RequireSessionHandler(request, AppJWTSigningKey, AppJWTIssuer, t)]
    /\ UNCHANGED <<now, nonceVars, storeVars, issued, jar, httpVars>>

InitValidator == InitCommon /\ backend = "memory"

NextValidator == ApplyValidateToken

InitMiddleware == InitCommon /\ backend = "memory"

NextMiddleware == ApplyMiddleware

SpecMiddleware == InitMiddleware /\ [][NextMiddleware]_vars

SpecValidator == InitValidator /\ [][NextValidator]_vars

\* the clock readings at which a token is minted and validated, and the ttls
MaxMintTime == 5

MaxTTL == 3

\* MintAppJWT at one clock reading, then ValidateToken of the token with the
\* same key and issuer at another
MintThenValidate ==
    /\ call.op = "none"
    /\ \E T \in 0..MaxMintTime, d \in 1..MaxTTL, t \in 0..(MaxMintTime + MaxTTL + 1) :
        call' = [op |-> "MintThenValidate", mintedAt |-> T, ttl |-> d, at |-> t,
                 token |-> MintAppJWT(1, AppJWTIssuer, AppJWTSigningKey, d, T),
                 err |-> ValidateToken(MintAppJWT(1, AppJWTIssuer, AppJWTSigningKey, d, T),
                                       AppJWTSigningKey, AppJWTIssuer, t)]
    /\ UNCHANGED <<now, nonceVars, storeVars, issued, jar, httpVars>>

InitMint == InitCommon /\ backend = "memory"

NextMint == MintThenValidate

SpecMint == InitMint /\ [][NextMint]_vars

\* ---------------------------------------------------------------- cookies
SessionCookieName == "app_session"

RefreshCookieName == "app_refresh"

\* configuration.CookieDomain
CookieDomain == ""

\* the Set-Cookie directive of writeSessionCookie
writeSessionCookie(sessionToken, expiresAt) ==
    [name |-> SessionCookieName, value |-> sessionToken, path |-> "/",
     domain |-> CookieDomain, expires |-> expiresAt, maxAge |-> 0,
     secure |-> TRUE, httpOnly |-> TRUE]

\* the Set-Cookie directive of writeRefreshCookie
writeRefreshCookie(opaque, expiresAt) ==
    [name |-> RefreshCookieName, value |-> opaque, path |-> "/auth",
     domain |-> CookieDomain, expires |-> expiresAt, maxAge |-> 0,
     secure |-> TRUE, httpOnly |-> TRUE]

\* the Set-Cookie directive of clearCookie
clearCookie(name) ==
    [name |-> name, value |-> BlankString, path |-> "/", domain |-> CookieDomain,
     expires |-> 0, maxAge |-> -1, secure |-> TRUE, httpOnly |-> TRUE]

\* a client that stores cookies per (name, domain, path) applies a directive
ApplyCookie(cookies, directive) ==
    LET key == <<directive.name, directive.domain, directive.path>> IN
    IF directive.maxAge < 0 THEN Restrict(cookies, DOMAIN cookies \ {key})
    ELSE Put(cookies, key, [value |-> directive.value, expires |-> directive.expires])

\* the cookies of a name the client holds at time t
Held(cookies, name, t) ==
    {key \in DOMAIN cookies : key[1] = name /\ cookies[key].expires > t}

\* the session token a response carries
SessionValue(user, t) == MintAppJWT(user, AppJWTIssuer, AppJWTSigningKey, SessionTTL, t)

\* the client receives the 200 of /auth/google; issued keeps the session token
\* minted along with each refresh secret; the server runs with or without
\* AllowInsecureHTTP
ClientLogin ==
    /\ randSeq < MaxTokens
    /\ \E user \in 1..NumUsers, allowInsecureHTTP \in BOOLEAN :
        /\ jar' = ApplyCookie(ApplyCookie(jar,
                      writeSessionCookie(SessionValue(user, now), now + SessionTTL)),
                      writeRefreshCookie(randSeq + 1, now + RefreshTTL))
        /\ issued' = Append(issued, SessionValue(user, now))
        /\ call' = [op |-> "ClientLogin", at |-> now,
                    allowInsecureHTTP |-> allowInsecureHTTP,
                    sessionCookie |-> writeSessionCookie(SessionValue(user, now),
                                                        now + SessionTTL),
                    refreshCookie |-> writeRefreshCookie(randSeq + 1, now + RefreshTTL)]
    /\ randSeq' = randSeq + 1
    /\ UNCHANGED <<now, nonceVars, memVars, rows, httpVars>>

\* the client sends the refresh cookie it holds for the path of
\* /auth/refresh and receives the 204
ClientRefresh ==
    /\ randSeq < MaxTokens
    /\ \E key \in Held(jar, RefreshCookieName, now), allowInsecureHTTP \in BOOLEAN :
        /\ key[3] \in {"/", "/auth"}
        /\ jar' = ApplyCookie(ApplyCookie(jar,
                      writeSessionCookie(SessionValue(issued[jar[key].value].sub, now),
                                         now + SessionTTL)),
                      writeRefreshCookie(randSeq + 1, now + RefreshTTL))
        /\ issued' = Append(issued, SessionValue(issued[jar[key].value].sub, now))
        /\ call' = [op |-> "ClientRefresh", at |-> now,
                    allowInsecureHTTP |-> allowInsecureHTTP,
                    sessionCookie |-> writeSessionCookie(
                        SessionValue(issued[jar[key].value].sub, now), now + SessionTTL),
                    refreshCookie |-> writeRefreshCookie(randSeq + 1, now + RefreshTTL)]
    /\ randSeq' = randSeq + 1
    /\ UNCHANGED <<now, nonceVars, memVars, rows, httpVars>>

\* the client receives the 204 of /auth/logout
ClientLogout ==
    /\ jar' = ApplyCookie(ApplyCookie(jar, clearCookie(SessionCookieName)),
                          clearCookie(RefreshCookieName))
    /\ call' = [op |-> "ClientLogout", at |-> now,
                sessions |-> {jar[key].value : key \in Held(jar, SessionCookieName, now)}]
    /\ UNCHANGED <<now, nonceVars, storeVars, issued, httpVars>>

InitCookies == InitCommon /\ backend = "memory"

NextCookies == Tick \/ ClientLogin \/ ClientRefresh \/ ClientLogout

SpecCookies == InitCookies /\ [][NextCookies]_vars

\* ---------------------------------------------------------------- the token string
\* a token string is three base64url segments; the model keeps the header's
\* alg, the claims, and the signature segment as the bytes it encodes
\* together with the bits of its last character that encode nothing (a
\* 32-byte signature fills 42 characters and four of the six bits of the
\* 43rd)
TrailingBits == 0..3

\* HMAC-SHA256 of the signing input (the header and claims segments) under a
\* key: different keys or inputs give different MACs
HS256(signingKey, alg, claims) == <<signingKey, alg, claims>>

\* base64.RawURLEncoding.EncodeToString: the unused bits are zero
EncodeSegment(bytes) == [bytes |-> bytes, trailing |-> 0]

\* base64.RawURLEncoding.DecodeString as the parser calls it (no
\* WithStrictDecoding among the parser options): the unused bits are dropped
DecodeSegment(segment) == segment.bytes

\* the registered claims of a token
ClaimsOf(token) ==
    [iss |-> token.iss, sub |-> token.sub, iat |-> token.iat,
     nbf |-> token.nbf, exp |-> token.exp]

\* token.SignedString: the string for a token signed under token.key
SignedString(token) ==
    [alg |-> token.alg, claims |-> ClaimsOf(token),
     sig |-> EncodeSegment(HS256(token.key, token.alg, ClaimsOf(token)))]

\* a parser that reads the segments and does not verify the signature
ParseSegmentsUnverified(tokenString, signingKey) ==
    [raw |-> "jwt", alg |-> tokenString.alg, key |-> signingKey,
     iss |-> tokenString.claims.iss, sub |-> tokenString.claims.sub,
     iat |-> tokenString.claims.iat, nbf |-> tokenString.claims.nbf,
     exp |-> tokenString.claims.exp]

\* the parser's reading of a token string: the claims, the method, and the
\* key its signature verifies under (SigningMethodHMAC.Verify recomputes the
\* MAC of the signing input and compares it with the decoded signature)
ParseSegments(tokenString, signingKey) ==
    [raw |-> "jwt", alg |-> tokenString.alg,
     key |-> IF DecodeSegment(tokenString.sig)
                    = HS256(signingKey, tokenString.alg, tokenString.claims)
             THEN signingKey ELSE "unverified",
     iss |-> tokenString.claims.iss, sub |-> tokenString.claims.sub,
     iat |-> tokenString.claims.iat, nbf |-> tokenString.claims.nbf,
     exp |-> tokenString.claims.exp]

\* Validator.ValidateToken of a token string
ValidateTokenString(tokenString, signingKey, issuer, t) ==
    ValidateToken(ParseSegments(tokenString, signingKey), signingKey, issuer, t)

\* the claims a forger may put in place of a token string's claims: another
\* subject, a later expiry
ForgedClaims(tokenString) ==
    {[tokenString.claims EXCEPT !.sub = s, !.exp = e] :
        s \in 1..NumUsers,
        e \in {tokenString.claims.exp, tokenString.claims.exp + TicksPerSecond}}

\* the signatures a forger may put in place of a token string's signature:
\* none, the MAC of any of the claims under the forger's key or copied from a
\* token the server signed, each with any trailing bits
ForgedSignatures(tokenString) ==
    [bytes : {<<>>} \cup {HS256(k, tokenString.alg, c) :
                            k \in {AppJWTSigningKey, "other-key"},
                            c \in ForgedClaims(tokenString)},
     trailing : TrailingBits]

\* the strings that can be presented in place of a token string
Presentable(tokenString) ==
    [alg : {tokenString.alg, "none"}, claims : ForgedClaims(tokenString),
     sig : ForgedSignatures(tokenString)]

\* MintAppJWT for a user, then ValidateToken of a string presented in place
\* of the minted one
PresentTokenString ==
    /\ call.op = "none"
    /\ \E user \in 1..NumUsers, T \in 0..MaxTime, t \in 0..(MaxTime + 1) :
        \E presented \in Presentable(SignedString(SessionValue(user, T))) :
            call' = [op |-> "PresentTokenString",
                     minted |-> SignedString(SessionValue(user, T)),
                     presented |-> presented, at |-> t,
                     err |-> ValidateTokenString(presented, AppJWTSigningKey,
                                                 AppJWTIssuer, t)]
    /\ UNCHANGED <<now, nonceVars, storeVars, issued, jar, httpVars>>

InitTamper == InitCommon /\ backend = "memory"

NextTamper == PresentTokenString

SpecTamper == InitTamper /\ [][NextTamper]_vars

Init == InitCommon /\ backend \in {"memory", "database"}

Login == \E r \in Slots : LoginBegin(r) \/ LoginIssue(r)

Refresh ==
    \E r \in Slots :
        RefreshBegin(r) \/ RefreshIssue(r) \/ RefreshRevoke(r) \/ RefreshRevokeFind(r)

Logout == \E r \in Slots : LogoutBegin(r) \/ LogoutRevoke(r) \/ LogoutRevokeFind(r)

Next == Tick \/ NonceRequest \/ Login \/ Refresh \/ Logout

Spec == Init /\ [][Next]_vars

\* ================================================================ claims

ConsumedWithinTTL(k) ==
    /\ nonceLog[k].first # <<>>
    /\ nonceLog[k].first[1] <= nonceLog[k].issuedAt + NonceTTL

ConsumedAfterTTL(k) ==
    /\ nonceLog[k].first # <<>>
    /\ nonceLog[k].first[1] > nonceLog[k].issuedAt + NonceTTL

\* C3: after Issue returned token t, the first Consume(t), if made at a time
\* no later than issue time + TTL, returns nil, and every Consume(t) after it
\* returns ErrNonceNotFound, whatever other Issue and Consume calls were made.
C3_NonceSingleUse ==
    \A k \in DOMAIN nonceLog :
        ConsumedWithinTTL(k) =>
            /\ nonceLog[k].first[2] = "nil"
            /\ nonceLog[k].later \subseteq {"ErrNonceNotFound"}

\* C3 witness: a token consumed within its TTL and then consumed again, with
\* another token issued on the same store.
C3_Witness ==
    \E k \in DOMAIN nonceLog :
        /\ ConsumedWithinTTL(k)
        /\ nonceLog[k].later # {}
        /\ nonceSeq >= 2

\* C4 as stated: the first Consume(t) of an issued token, made after issue
\* time + TTL, returns ErrNonceExpired whatever other calls were made before.
C4_ExpiredAlways ==
    \A k \in DOMAIN nonceLog :
        ConsumedAfterTTL(k) => nonceLog[k].first[2] = "ErrNonceExpired"

\* C4 amended: the first Consume(t) of an issued token, made after issue
\* time + TTL, returns ErrNonceExpired when no other Issue or Consume call ran
\* on the store after issue time + TTL, and ErrNonceNotFound when one did (that
\* call purged the token); it never returns nil.
C4_ExpiredUnlessPurged ==
    \A k \in DOMAIN nonceLog :
        ConsumedAfterTTL(k) =>
            nonceLog[k].first[2] =
                IF nonceLog[k].lateCall THEN "ErrNonceNotFound" ELSE "ErrNonceExpired"

\* C4 witness: one token consumed late and reported expired, another consumed
\* late after a call that purged it.
C4_Witness ==
    \E k, j \in DOMAIN nonceLog :
        /\ ConsumedAfterTTL(k) /\ ~nonceLog[k].lateCall
        /\ nonceLog[k].first[2] = "ErrNonceExpired"
        /\ ConsumedAfterTTL(j) /\ nonceLog[j].lateCall
        /\ nonceLog[j].first[2] = "ErrNonceNotFound"

\* C6 as stated: in both stores, Revoke(id) on an already revoked record
\* returns ErrRefreshTokenAlreadyRevoked and leaves RevokedAtUnix as the first
\* revocation set it.
C6_RevokeAgain ==
    call.op = "Revoke" =>
        /\ call.memBefore > 0 =>
            /\ call.memErr = "ErrRefreshTokenAlreadyRevoked"
            /\ call.memAfter = call.memBefore
        /\ call.dbBefore > 0 =>
            /\ call.dbErr = "ErrRefreshTokenAlreadyRevoked"
            /\ call.dbAfter = call.dbBefore

\* the record a store holds for a secret, found by the hash of the secret
MemRecordsOf(opaque) == {id \in DOMAIN byID : byID[id].Hash = hashOpaque(opaque)}

DbRecordsOf(opaque) == {id \in DOMAIN rows : rows[id].TokenHash = hashOpaque(opaque)}

\* the answer the contract of Validate gives: the first failing check of empty
\* input, hash lookup, revocation, expiry
ContractErr(opaque, table, ids, t) ==
    IF IsBlank(opaque) THEN "ErrRefreshTokenEmptyOpaque"
    ELSE IF ids = {} THEN "ErrRefreshTokenNotFound"
    ELSE IF \E id \in ids : table[id].RevokedAtUnix # 0 THEN "ErrRefreshTokenRevoked"
    ELSE IF \E id \in ids : table[id].ExpiresUnix < t THEN "ErrRefreshTokenExpired"
    ELSE "nil"

ContractMet(opaque, table, ids, t, res) ==
    /\ res.err = ContractErr(opaque, table, ids, t)
    /\ res.err = "nil" =>
        \E id \in ids :
            /\ res.UserID = table[id].UserID
            /\ res.TokenID = table[id].TokenID
            /\ res.ExpiresUnix = table[id].ExpiresUnix
            /\ table[id].RevokedAtUnix = 0
            /\ ~(table[id].ExpiresUnix < t)

\* C7 as stated: Validate reports the first failing check among empty input,
\* hash lookup, revocation and expiry with the matching sentinel error, and
\* succeeds with the record's (UserID, TokenID, ExpiresUnix) otherwise.
C7_ValidateOrder ==
    call.op = "Validate" =>
        /\ ContractMet(call.memArg, byID, MemRecordsOf(call.memArg), call.at, call.mem)
        /\ ContractMet(call.dbArg, rows, DbRecordsOf(call.dbArg), call.at, call.db)

\* C8 as stated: Revoke(id) for an id that has no record returns
\* ErrRefreshTokenNotFound and changes no record.
C8_RevokeUnknown ==
    call.op = "Revoke" =>
        /\ call.memBefore = -1 =>
            call.memErr = "ErrRefreshTokenNotFound" /\ call.memSame
        /\ call.dbBefore = -1 =>
            call.dbErr = "ErrRefreshTokenNotFound" /\ call.dbSame

\* C9 as stated: for the same calls at the same clock readings the two stores
\* return the same outcome: success or the same sentinel error.
C9_SameOutcome ==
    call.op \in {"Issue", "Validate", "Revoke"} => call.memErr = call.dbErr

\* C1 as stated: of the /auth/refresh requests that present the same refresh
\* cookie, whatever the interleaving of their Validate, Issue and Revoke
\* calls, at most one is answered 204 with rotated cookies.
C1_OneRefreshWins ==
    \A secret \in DOMAIN rotations : rotations[secret] <= 1

\* the login requests in flight that got past the nonce check
LoginsPast(k) == {r \in Slots : req[r].kind = "login" /\ req[r].pc = "issue" /\ req[r].nonce = k}

\* the last response belongs to a login request that got past the nonce check
LastPast(k) ==
    /\ last.kind = "login" /\ last.nonce = k
    /\ last.stage \notin {"body", "nonce"}

\* the last response refuses a login request at the nonce check
LastRefused(k) == last.kind = "login" /\ last.nonce = k /\ last.stage = "nonce"

\* C2: of the login requests with a well-formed body that carry the same
\* nonce_token, in any order or interleaving, at most one gets past the nonce
\* check; every other one is answered 401 invalid_nonce with no cookie set and
\* goes no further.
C2_NonceOneExchange ==
    \A k \in DOMAIN passed :
        /\ passed[k] <= 1
        /\ Cardinality(LoginsPast(k)) + (IF LastPast(k) THEN 1 ELSE 0) <= passed[k]
        /\ LastRefused(k) =>
            /\ last.status = 401 /\ last.error = "invalid_nonce"
            /\ ~last.setSession /\ IsBlank(last.setRefresh) /\ IsBlank(last.user)

\* C2 witness: while the login request that consumed the nonce is still being
\* served, a second request carrying the same nonce is refused.
C2_Witness ==
    \E k \in DOMAIN passed : LastRefused(k) /\ LoginsPast(k) # {} /\ passed[k] = 1

\* /auth/refresh answers 204 in this step
RefreshAnswered204 ==
    \E r \in Slots :
        /\ req[r].kind = "refresh" /\ req[r].pc \in {"revoke", "revoke_find"}
        /\ req'[r].pc = "idle"
        /\ last'.kind = "refresh" /\ last'.status = 204

\* Validate as the store answers it once the step is done
ValidateAfter(opaque) ==
    IF backend = "memory" THEN MemValidate(byID', byHash', opaque, now')
    ELSE DbValidate(rows', opaque, now')

\* the PreviousTokenID of a stored record once the step is done
PreviousAfter(tokenID) ==
    IF backend = "memory" THEN byID'[tokenID].PreviousTokenID
    ELSE rows'[tokenID].PreviousTokenID

\* the state /auth/refresh leaves behind when it answers 204
Rotated ==
    /\ ValidateAfter(last'.cookie).err = "ErrRefreshTokenRevoked"
    /\ last'.setRefresh # last'.cookie
    /\ LET res == ValidateAfter(last'.setRefresh) IN
        /\ res.err = "nil"
        /\ res.UserID = last'.user
        /\ PreviousAfter(res.TokenID) = last'.tokenID

\* C5 as stated: when /auth/refresh answers 204, Validate of the secret the
\* request presented returns ErrRefreshTokenRevoked, and the refresh cookie
\* of the response holds a different secret, which Validate accepts for the
\* same user and whose record has the old token's id as PreviousTokenID.
C5_RefreshRotates == [][RefreshAnswered204 => Rotated]_vars

\* every field of a stored record but RevokedAtUnix keeps its value, and
\* RevokedAtUnix keeps a non-zero value
RecordKept(old, new) ==
    /\ \A field \in DOMAIN old \ {"RevokedAtUnix"} : new[field] = old[field]
    /\ old.RevokedAtUnix # 0 => new.RevokedAtUnix = old.RevokedAtUnix

RecordsKept(old, new) ==
    \A id \in DOMAIN old : id \in DOMAIN new /\ RecordKept(old[id], new[id])

StoreRecords == IF backend = "memory" THEN byID ELSE rows

\* the record a rotation chain starts at: the one issued at login
RECURSIVE ChainRoot(_, _)
ChainRoot(table, id) ==
    IF table[id].PreviousTokenID = NoTokenID \/ table[id].PreviousTokenID \notin DOMAIN table
    THEN id
    ELSE ChainRoot(table, table[id].PreviousTokenID)

\* the non-revoked records of the chain that starts at root
ActiveLinks(table, root) ==
    {id \in DOMAIN table : ChainRoot(table, id) = root /\ table[id].RevokedAtUnix = 0}

\* C11 as stated: in every state reached through login, refresh and logout
\* requests, the records linked through PreviousTokenID from one login have
\* at most one non-revoked record among them.
C11_OneActiveLink ==
    \A id \in DOMAIN StoreRecords :
        Cardinality(ActiveLinks(StoreRecords, ChainRoot(StoreRecords, id))) <= 1

\* the hash a stored record carries
HashOf(record) == IF "Hash" \in DOMAIN record THEN record.Hash ELSE record.TokenHash

\* the records a store holds for a secret
RecordsOf(table, secret) == {id \in DOMAIN table : HashOf(table[id]) = hashOpaque(secret)}

\* the record of the secret is in the store and not revoked
StoredUnrevoked(table, secret) ==
    /\ RecordsOf(table, secret) # {}
    /\ \A id \in RecordsOf(table, secret) : table[id].RevokedAtUnix = 0

\* a refresh request gets its answer in this step after Revoke returned an
\* error other than ErrRefreshTokenAlreadyRevoked
RefreshRevokeFailed(r) ==
    /\ req[r].kind = "refresh" /\ req[r].pc \in {"revoke", "revoke_find"}
    /\ req'[r].pc = "idle"
    /\ last'.kind = "refresh" /\ last'.warning # ""

\* a secret that was issued, was handed to no client and is held by no
\* request in flight
Orphaned(secret) ==
    /\ secret \notin delivered
    /\ \A r \in Slots : req[r].newOpaque # secret

\* C12: when Revoke of the old token fails during /auth/refresh with an error
\* other than ErrRefreshTokenAlreadyRevoked, the answer is 500 with neither
\* cookie set, and the record the request issued stays in the store, not
\* revoked, its secret handed to no client then or later.
C12_RevokeFailure ==
    [][/\ \A r \in Slots :
            RefreshRevokeFailed(r)
            => /\ last'.status = 500
               /\ ~last'.setSession /\ IsBlank(last'.setRefresh)
               /\ StoredUnrevoked(StoreRecords', req[r].newOpaque)
               /\ req[r].newOpaque \notin delivered'
               /\ \A q \in Slots : req'[q].newOpaque # req[r].newOpaque
       /\ \A secret \in 1..randSeq :
            Orphaned(secret) /\ StoredUnrevoked(StoreRecords, secret)
            => /\ secret \notin delivered'
               /\ \A q \in Slots : req'[q].newOpaque # secret
               /\ StoredUnrevoked(StoreRecords', secret)]_vars

\* C12 witness: /auth/refresh answered 500 after its Revoke failed, and the
\* record it issued is in the store, not revoked and handed to no client.
C12_Witness ==
    /\ last.kind = "refresh" /\ last.status = 500 /\ last.stage = "revoke"
    /\ \E secret \in 1..randSeq :
        /\ Orphaned(secret) /\ StoredUnrevoked(StoreRecords, secret)
        /\ \E id \in RecordsOf(StoreRecords, secret) :
            StoreRecords[id].PreviousTokenID = last.tokenID

\* C13: a /auth/google response sets the session and the refresh cookie only
\* when it is the 200 that ends a request whose nonce was consumed, whose user
\* was upserted and whose refresh token was issued for that user; every other
\* response sets neither cookie, and every record a login issued belongs to a
\* secret that a 200 handed to the client.
C13_LoginAllOrNothing ==
    /\ last.kind = "login" =>
        /\ last.setSession <=> last.status = 200
        /\ ~IsBlank(last.setRefresh) <=> last.status = 200
        /\ last.status = 200 =>
            /\ last.stage = "cookies"
            /\ last.nonce \in DOMAIN passed /\ passed[last.nonce] = 1
            /\ last.nonce \notin DOMAIN entries
            /\ last.user \in users
            /\ last.setRefresh \in delivered
            /\ \E id \in RecordsOf(StoreRecords, last.setRefresh) :
                /\ StoreRecords[id].UserID = last.user
                /\ StoreRecords[id].PreviousTokenID = NoTokenID
    /\ \A id \in DOMAIN StoreRecords :
        StoreRecords[id].PreviousTokenID = NoTokenID =>
            \E secret \in delivered : id \in RecordsOf(StoreRecords, secret)

\* C13 witness: a login that passed the nonce check, the identity checks and
\* the upsert is answered 500 because Issue failed, with no record stored.
C13_Witness ==
    /\ last.kind = "login" /\ last.status = 500 /\ last.stage = "issue"
    /\ users # {} /\ DOMAIN StoreRecords = {} /\ randSeq = 1

IssuerRuleMet(payload) ==
    payload.iss \in {"https://accounts.google.com", "accounts.google.com"}

IdentityRuleMet(payload) ==
    payload.sub # BlankString /\ payload.email # BlankString /\ payload.email_verified

NonceRuleMet(payload, nonceToken) ==
    payload.nonce \in {nonceToken, hashOpaque(nonceToken)}

\* C14 as stated: the binding rules apply in the order issuer, identity
\* (subject, email, email_verified), nonce claim, and the first failing rule
\* names the error: invalid_issuer whatever else is wrong, unverified_identity
\* when the identity rule and the nonce rule both fail.
C14_BindingOrder ==
    call.op = "Bind" =>
        call.error =
            IF ~IssuerRuleMet(call.payload) THEN "invalid_issuer"
            ELSE IF ~IdentityRuleMet(call.payload) THEN "unverified_identity"
            ELSE IF ~NonceRuleMet(call.payload, call.nonceToken) THEN "invalid_nonce"
            ELSE ""

\* C15: with the other rules met, the login goes on exactly when the nonce
\* claim is the raw nonce_token or its hash; with any other nonce claim, the
\* empty one included, the login is answered 401.
C15_NonceClaim ==
    call.op = "Bind" =>
        /\ IssuerRuleMet(call.payload) /\ IdentityRuleMet(call.payload) =>
            (call.proceeds <=> NonceRuleMet(call.payload, call.nonceToken))
        /\ ~NonceRuleMet(call.payload, call.nonceToken) =>
            ~call.proceeds /\ call.status = 401

\* C15 witness: a login whose nonce claim is the hash of its nonce_token goes
\* on.
C15_Witness ==
    /\ call.op = "Bind"
    /\ call.payload.nonce = hashOpaque(call.nonceToken)
    /\ call.proceeds

\* C16: every /auth/logout response is a 204 that clears the session and the
\* refresh cookie, whatever cookie the request carried and whatever Validate
\* and Revoke returned, however often it is repeated.
C16_LogoutAlways ==
    last.kind = "logout" =>
        /\ last.status = 204 /\ last.cleared /\ last.stage = "cookies"
        /\ ~last.setSession /\ IsBlank(last.setRefresh)

\* C16 witness: a logout whose Revoke returned an error is answered 204 with
\* both cookies cleared.
C16_Witness ==
    /\ last.kind = "logout" /\ last.warning # ""
    /\ last.status = 204 /\ last.cleared

\* the store holds the secret's record as revoked
StoredRevoked(table, secret) ==
    \E id \in RecordsOf(table, secret) : table[id].RevokedAtUnix # 0

\* a logout whose Revoke returned no error, or ErrRefreshTokenAlreadyRevoked,
\* gets its answer in this step
LogoutRevoked(r) ==
    /\ req[r].kind = "logout" /\ req[r].pc \in {"revoke", "revoke_find"}
    /\ req'[r].pc = "idle"
    /\ last'.kind = "logout" /\ last'.warning = ""

\* C17 as stated: once /auth/logout has answered a request whose refresh
\* cookie Validate accepted and whose Revoke did not fail, the token is
\* revoked for good: Validate of its secret returns ErrRefreshTokenRevoked and
\* no /auth/refresh that presents it gets past Validate.
C17_LogoutRevokes ==
    [][/\ \A r \in Slots : LogoutRevoked(r) => StoredRevoked(StoreRecords', req[r].cookie)
       /\ \A secret \in delivered :
            StoredRevoked(StoreRecords, secret) =>
                /\ StoredRevoked(StoreRecords', secret)
                /\ ValidateAfter(secret).err = "ErrRefreshTokenRevoked"
                /\ \A r \in Slots :
                    Free(r) => ~(req'[r].kind = "refresh" /\ req'[r].cookie = secret)]_vars

\* C18 as stated: a client that stores cookies per (name, domain, path) and
\* applies the response of /auth/logout holds neither a session cookie nor a
\* refresh cookie afterwards.
C18_LogoutClearsJar ==
    call.op = "ClientLogout" =>
        /\ Held(jar, SessionCookieName, call.at) = {}
        /\ Held(jar, RefreshCookieName, call.at) = {}

\* the token verifies under the validator's key and its exp, nbf and iat
\* admit the time t
OtherwiseValid(token, t) ==
    /\ token.raw = "jwt" /\ token.alg = "HS256" /\ token.key = AppJWTSigningKey
    /\ token.exp = AbsentClaim \/ t < token.exp
    /\ token.nbf = AbsentClaim \/ token.nbf <= t
    /\ token.iat = AbsentClaim \/ token.iat <= t

\* C20: a token whose issuer claim differs from the configured issuer is
\* rejected by ValidateToken and answered 401 by RequireSession; when it is
\* signed with the right key and within its validity window the error is
\* ErrInvalidIssuer.
C20_IssuerMismatch ==
    call.op = "ValidateToken" /\ call.token.raw = "jwt" /\ call.token.iss # AppJWTIssuer =>
        /\ call.err # "nil" /\ call.status = 401
        /\ OtherwiseValid(call.token, call.at) => call.err = "ErrInvalidIssuer"

\* C20 witness: a token of another issuer, signed with the right key and not
\* expired, is rejected with ErrInvalidIssuer.
C20_Witness ==
    /\ call.op = "ValidateToken" /\ call.token.iss = "another-issuer"
    /\ OtherwiseValid(call.token, call.at) /\ call.token.exp > call.at
    /\ call.err = "ErrInvalidIssuer" /\ call.status = 401

\* the verdict the token's own claims give at time t
OwnVerdict(token, t) == IF t < token.exp THEN "nil" ELSE "ErrTokenExpired"

\* C19: whatever logins, refreshes and logouts have happened, the logout of
\* the session that obtained the token included, a session token the service
\* minted is accepted exactly until its own expiry.
C19_SessionOutlivesLogout ==
    /\ \A n \in DOMAIN issued :
        ValidateToken(issued[n], AppJWTSigningKey, AppJWTIssuer, now) = OwnVerdict(issued[n], now)
    /\ call.op = "ClientLogout" =>
        \A token \in call.sessions :
            ValidateToken(token, AppJWTSigningKey, AppJWTIssuer, now) = OwnVerdict(token, now)

\* C19 witness: the client has applied the logout response and holds no
\* session cookie, and the session token it held is still accepted.
C19_Witness ==
    /\ call.op = "ClientLogout"
    /\ Held(jar, SessionCookieName, now) = {}
    /\ \E token \in call.sessions :
        ValidateToken(token, AppJWTSigningKey, AppJWTIssuer, now) = "nil"

\* C21 as stated: a token minted at T with ttl d is accepted at every clock
\* reading t with T <= t < T + d, rejected as expired at every t > T + d, and
\* rejected at every t < T.
C21_WindowFromMintTime ==
    call.op = "MintThenValidate" =>
        /\ (call.mintedAt <= call.at /\ call.at < call.mintedAt + call.ttl) => call.err = "nil"
        /\ call.at > call.mintedAt + call.ttl => call.err = "ErrTokenExpired"
        /\ call.at < call.mintedAt => call.err \notin {"nil", "ErrTokenExpired"}

\* C21 amended: the window is that of the claims the token carries, which are
\* whole seconds: with IssuedAt the second of T and ExpiresAt the second of
\* T + d, the token is accepted at every clock reading t with
\* IssuedAt <= t < ExpiresAt, rejected as expired at every t >= ExpiresAt, and
\* rejected as invalid at every t < IssuedAt, NotBefore allowance included.
C21_WindowFromClaims ==
    call.op = "MintThenValidate" =>
        LET issuedAt == NewNumericDate(call.mintedAt)
            expiresAt == NewNumericDate(call.mintedAt + call.ttl) IN
        /\ (issuedAt <= call.at /\ call.at < expiresAt) => call.err = "nil"
        /\ call.at >= expiresAt => call.err = "ErrTokenExpired"
        /\ (call.at < issuedAt /\ call.at < expiresAt) => call.err = "ErrInvalidToken"

\* C21 witness: a token minted between two seconds is refused before
\* T + d has come, at a clock reading no earlier than T.
C21_Witness ==
    /\ call.op = "MintThenValidate"
    /\ call.mintedAt % TicksPerSecond # 0
    /\ call.mintedAt <= call.at /\ call.at < call.mintedAt + call.ttl
    /\ call.err = "ErrTokenExpired"

\* C22: ValidateRequest returns ErrMissingCookie when the configured cookie
\* is absent or blank; GinMiddleware and RequireSession run the next handler
\* and put claims in the request context exactly when ValidateRequest
\* succeeded, and otherwise answer 401 without running the next handler.
C22_MiddlewareGate ==
    call.op = "Middleware" =>
        /\ (~call.request.hasCookie \/ call.request.value.raw = "blank") =>
                call.err = "ErrMissingCookie"
        /\ \A result \in {call.gin, call.require} :
            /\ result.next <=> call.err = "nil"
            /\ result.claims.set <=> call.err = "nil"
            /\ call.err # "nil" => result.status = 401 /\ result.claims = NoClaims
            /\ call.err = "nil" => result.claims.sub = call.request.value.sub

\* C22 witness: a request whose session cookie holds a well-formed token of
\* the right key that has expired is answered 401 and the next handler does
\* not run.
C22_Witness ==
    /\ call.op = "Middleware" /\ call.request.hasCookie
    /\ call.err = "ErrTokenExpired"
    /\ call.gin.status = 401 /\ ~call.gin.next /\ ~call.require.next

\* the concurrent Revoke calls that returned err
Returned(err) == {c \in Callers : call.err[c] = err}

\* C23: of the concurrent Revoke calls of the database store on one active
\* record, never more than one returns nil and RevokedAtUnix is never
\* written twice; once all have returned, and no statement came back with a
\* database error, exactly one has returned nil, every other has returned
\* ErrRefreshTokenAlreadyRevoked, and RevokedAtUnix holds the one value
\* written.
C23_OneRevokeWins ==
    call.op = "ConcurrentRevoke" =>
        /\ Cardinality(Returned("nil")) <= 1
        /\ call.writes <= 1
        /\ call.writes = Cardinality(Returned("nil"))
        /\ call.writes = 1 => rows[call.tokenID].RevokedAtUnix = call.writtenAt
        /\ call.writes = 0 => rows[call.tokenID].RevokedAtUnix = 0
        /\ ((\A c \in Callers : call.pc[c] = "done") /\ Returned(DbRevokeFailure) = {}) =>
                /\ Cardinality(Returned("nil")) = 1
                /\ Returned("ErrRefreshTokenAlreadyRevoked") = Callers \ Returned("nil")
                /\ call.writes = 1

\* C23 witness: all calls have returned without a database error, one with
\* nil and two with ErrRefreshTokenAlreadyRevoked, and the clock moved on
\* after the record was revoked.
C23_Witness ==
    /\ call.op = "ConcurrentRevoke"
    /\ \A c \in Callers : call.pc[c] = "done"
    /\ Cardinality(Returned("nil")) = 1
    /\ Cardinality(Returned("ErrRefreshTokenAlreadyRevoked")) >= 2
    /\ call.writtenAt < now

\* the secrets generateRefreshOpaque has returned
Secrets == {generateRefreshOpaque(n) : n \in 1..randSeq}

\* C24: in both stores the hash field of every record, and every key of the
\* in-memory hash index, is the hash of a secret Issue returned and is no
\* such secret itself; presenting a stored hash in place of the secret finds
\* no record, and a record found by Validate is the one holding the hash of
\* the secret presented.
C24_OnlyHashStored ==
    /\ \A id \in DOMAIN byID :
        /\ byID[id].Hash \notin Secrets
        /\ \E secret \in Secrets : byID[id].Hash = hashOpaque(secret)
        /\ MemValidate(byID, byHash, byID[id].Hash, now).err = "not_found"
    /\ \A hashValue \in DOMAIN byHash :
        /\ hashValue \notin Secrets
        /\ \E secret \in Secrets : hashValue = hashOpaque(secret)
    /\ \A id \in DOMAIN rows :
        /\ rows[id].TokenHash \notin Secrets
        /\ \E secret \in Secrets : rows[id].TokenHash = hashOpaque(secret)
        /\ DbValidate(rows, rows[id].TokenHash, now).err = "ErrRefreshTokenNotFound"
    /\ (call.op = "Validate" /\ call.memErr = "nil") =>
            byID[call.mem.TokenID].Hash = hashOpaque(call.memArg)
    /\ (call.op = "Validate" /\ call.dbErr = "nil") =>
            rows[call.db.TokenID].TokenHash = hashOpaque(call.dbArg)

\* C24 witness: Validate of a secret Issue returned has found its record in
\* both stores.
C24_Witness ==
    /\ call.op = "Validate" /\ call.memErr = "nil" /\ call.dbErr = "nil"
    /\ call.memArg \in Secrets /\ call.dbArg \in Secrets
    /\ byID # <<>> /\ rows # <<>>

\* the request got as far as the Google validator
ValidatorCalled(rec) == rec.pc = "issue" \/ rec.stage \in {"validator", "binding", "upsert"}

\* the request was turned away without the validator, the user store or the
\* refresh store being called and without a cookie
TurnedAway(c) ==
    /\ ~ValidatorCalled(c.response) /\ users = c.usersBefore
    /\ c.response.pc = "done" /\ c.response.status # 200
    /\ ~c.response.setSession /\ c.response.setRefresh = BlankString
    /\ byID = <<>> /\ rows = <<>>

\* C25 as stated: with AllowInsecureHTTP false every /auth/google request
\* isHTTPS does not recognize is answered 400 https_required and turned
\* away; a request isHTTPS recognizes is never answered https_required.
C25_InsecureAlwaysHTTPSRequired ==
    call.op = "Login" =>
        /\ (~call.allowInsecureHTTP /\ ~call.recognized) =>
                /\ call.response.status = 400 /\ call.response.error = "https_required"
                /\ TurnedAway(call)
        /\ call.recognized => call.response.error # "https_required"

\* C25 amended: the HTTPS check comes after the body and nonce checks.  With
\* AllowInsecureHTTP false a request isHTTPS does not recognize is always
\* turned away; it is answered 400 https_required when its body carried both
\* tokens and its nonce was consumed, and with that earlier check's answer
\* (400 invalid_json, 400 missing_nonce, 401 invalid_nonce) otherwise.  A
\* request isHTTPS recognizes, or any request when AllowInsecureHTTP is
\* true, is never answered https_required.
C25_InsecureTurnedAway ==
    call.op = "Login" =>
        /\ (~call.allowInsecureHTTP /\ ~call.recognized) =>
                /\ TurnedAway(call)
                /\ call.response.stage \in {"body", "nonce", "https"}
                /\ call.response.stage = "https" =>
                        call.response.status = 400 /\ call.response.error = "https_required"
                /\ call.response.stage = "body" =>
                        /\ call.response.status = 400
                        /\ call.response.error \in {"invalid_json", "missing_nonce"}
                /\ call.response.stage = "nonce" =>
                        call.response.status = 401 /\ call.response.error = "invalid_nonce"
        /\ (call.recognized \/ call.allowInsecureHTTP) =>
                call.response.error # "https_required"
        /\ (call.origin.tls \/ EqualFoldHTTPS(call.origin.xForwardedProto)
                \/ ContainsProtoHTTPS(call.origin.forwarded)
                \/ call.origin.host = [name |-> "localhost", port |-> "8080"]) =>
                call.recognized

\* C25 witness: a plain-HTTP request with a fresh nonce is answered
\* 400 https_required, its nonce consumed.
C25_Witness ==
    /\ call.op = "Login" /\ ~call.allowInsecureHTTP /\ ~call.recognized
    /\ call.response.error = "https_required"
    /\ call.response.nonce = randomToken(1) /\ randomToken(1) \notin DOMAIN entries

\* the calls of the /auth/refresh handler, in the order of its code
RefreshOrder ==
    <<"Validate", "expiry", "GetUserProfile", "MintAppJWT", "Issue", "Revoke", "cookies">>

IsPrefix(s, t) == Len(s) <= Len(t) /\ \A i \in 1..Len(s) : s[i] = t[i]

\* the number of calls made by a request that ended at a stage
StepsAtStage(stage) ==
    CASE stage = "cookie" -> 0
      [] stage = "validate" -> 1
      [] stage = "expired" -> 2
      [] stage = "profile" -> 3
      [] stage = "mint" -> 4
      [] stage = "issue" -> 5
      [] stage = "revoke" -> 6
      [] stage = "cookies" -> 7

\* the number of calls made by a request still in its handler
StepsAtPC(pc) ==
    CASE pc = "issue" -> 4
      [] pc = "revoke" -> 5
      [] pc = "revoke_find" -> 6

\* C26: the calls one /auth/refresh request has made are always a beginning
\* of Validate, expiry check, GetUserProfile, MintAppJWT, Issue, Revoke,
\* cookies, so each is made at most once and in that order; a request that
\* failed made no call after the failing one, and only a request that made
\* them all is answered 204; the record it issued names the validated
\* record as its previous one, and the validated record is the one revoked.
C26_RefreshStepOrder ==
    /\ \A r \in Slots : req[r].kind = "refresh" =>
            /\ IsPrefix(req[r].steps, RefreshOrder)
            /\ Len(req[r].steps) = StepsAtPC(req[r].pc)
    /\ last.kind = "refresh" =>
            /\ IsPrefix(last.steps, RefreshOrder)
            /\ Len(last.steps) = StepsAtStage(last.stage)
            /\ last.status = 204 <=> last.steps = RefreshOrder
            /\ last.status # 204 => ~last.setSession /\ last.setRefresh = BlankString
            /\ last.status = 204 =>
                    /\ RecordsOf(StoreRecords, last.setRefresh) # {}
                    /\ \A id \in RecordsOf(StoreRecords, last.setRefresh) :
                        /\ StoreRecords[id].PreviousTokenID \in RecordsOf(StoreRecords, last.cookie)
                        /\ StoreRecords[StoreRecords[id].PreviousTokenID].RevokedAtUnix # 0

\* C26 witness: after a refresh that made every call and was answered 204,
\* the last refresh made six calls, its Revoke failed, and it was answered 500.
C26_Witness ==
    /\ last.kind = "refresh" /\ last.status = 500 /\ last.stage = "revoke"
    /\ Len(last.steps) = 6
    /\ \E secret \in DOMAIN rotations : rotations[secret] > 0

\* the counters a finished request incremented, given the success and the
\* failure counter of its route and the status of a success
CountedOnce(rec, success, failure, okStatus) ==
    /\ Len(rec.metrics) = 1
    /\ rec.metrics[1] \in {success, failure}
    /\ rec.metrics[1] = success <=> rec.status = okStatus

\* C27: a finished /auth/google request has incremented exactly one counter,
\* once: auth.login.success when it was answered 200, auth.login.failure
\* otherwise; a finished /auth/refresh request likewise, auth.refresh.success
\* going with 204; a request still in its handler has incremented none.
C27_OneCounterPerRequest ==
    /\ last.kind = "login" =>
            CountedOnce(last, metricAuthLoginSuccess, metricAuthLoginFailure, 200)
    /\ last.kind = "refresh" =>
            CountedOnce(last, metricAuthRefreshSuccess, metricAuthRefreshFailure, 204)
    /\ \A r \in Slots : req[r].kind \in {"login", "refresh"} => req[r].metrics = <<>>

\* C27 witness: a refresh that failed at Revoke, after Issue had succeeded,
\* counted one auth.refresh.failure.
C27_Witness ==
    /\ last.kind = "refresh" /\ last.stage = "revoke" /\ last.status = 500
    /\ last.metrics = <<metricAuthRefreshFailure>>

\* C28: a refresh request whose token the store's Validate accepted, with an
\* ExpiresUnix earlier than the reading of the handler's clock, is answered
\* 401 after the expiry check: it is not taken on to Issue or Revoke and no
\* cookie is written.
C28_HandlerExpiry ==
    (call.op = "RefreshAtClock" /\ call.res.err = "nil"
        /\ call.res.ExpiresUnix < call.clock) =>
        /\ call.response.pc = "done" /\ call.response.status = 401
        /\ call.response.stage = "expired"
        /\ call.response.steps = <<"Validate", "expiry">>
        /\ ~call.response.setSession /\ call.response.setRefresh = BlankString
        /\ call.response.newOpaque = BlankString

\* C28 witness: the store accepted the token at its own clock reading and
\* the handler's clock read later than the token's ExpiresUnix: 401.
C28_Witness ==
    /\ call.op = "RefreshAtClock" /\ call.res.err = "nil"
    /\ call.res.ExpiresUnix >= call.at /\ call.res.ExpiresUnix < call.clock
    /\ call.response.status = 401

\* C29: the session and the refresh cookie a login or refresh response
\* writes are HttpOnly, and carry Secure exactly when AllowInsecureHTTP is
\* false.
C29_SecureUnlessInsecure ==
    call.op \in {"ClientLogin", "ClientRefresh"} =>
        /\ call.sessionCookie.httpOnly /\ call.refreshCookie.httpOnly
        /\ call.sessionCookie.secure <=> ~call.allowInsecureHTTP
        /\ call.refreshCookie.secure <=> ~call.allowInsecureHTTP

\* the apiFetch calls at an await of a given kind
CallsAt(pc) == {c \in Calls : call.pc[c] = pc}

\* C30: at most one POST to the refresh endpoint issued by apiFetch is
\* outstanding at any time; a call that receives 401 while isRefreshing is
\* set waits in the queue and posts no refresh; no call sends its own
\* request more than twice, that is, re-sends it more than once.
C30_OneRefreshInFlight ==
    call.op = "apiFetch" =>
        /\ Cardinality(CallsAt("refresh")) <= 1
        /\ Cardinality(CallsAt("refresh") \cup CallsAt("retry")) <= 1
        /\ CallsAt("refresh") # {} => call.isRefreshing
        /\ \A c \in Calls : call.sent[c] <= 2
        /\ \A c \in CallsAt("queued") :
            /\ call.sent[c] = 1
            /\ \E i \in 1..Len(call.pendingRequests) : call.pendingRequests[i] = c
        /\ \A c \in CallsAt("resent") : call.sent[c] = 2

\* C30 witness: two calls got 401 while a third call's refresh was in
\* flight; after the one refresh both have been sent again.
C30_Witness ==
    /\ call.op = "apiFetch"
    /\ Cardinality(CallsAt("resent")) >= 2
    /\ call.refreshes = 1

\* a token string the server's mint produces: the signature segment encodes,
\* with zero trailing bits, the MAC of its own header and claims under the
\* configured key
ValidlyMinted(tokenString) ==
    tokenString.sig
        = EncodeSegment(HS256(AppJWTSigningKey, tokenString.alg, tokenString.claims))

\* C31 (as stated): every presented token string that is not a validly minted
\* one, differing from it in its claims or its signature, fails validation.
C31_EveryOtherStringFails ==
    call.op = "PresentTokenString" /\ ~ValidlyMinted(call.presented)
        => call.err # "nil"

\* C31 (amended): a token string is accepted only if the bytes its signature
\* segment decodes to are the HS256 MAC of exactly its header and claims
\* under the configured key; so a string with the minted token's signature
\* and other claims fails, and so does a string with the minted token's
\* claims and a signature that decodes to other bytes.
C31_SignatureIsMAC ==
    call.op = "PresentTokenString" =>
        /\ call.err = "nil" =>
              DecodeSegment(call.presented.sig)
                  = HS256(AppJWTSigningKey, call.presented.alg, call.presented.claims)
        /\ (call.presented.claims # call.minted.claims
              /\ DecodeSegment(call.presented.sig) = DecodeSegment(call.minted.sig))
              => call.err = "ErrInvalidToken"
        /\ (call.presented.claims = call.minted.claims
              /\ DecodeSegment(call.presented.sig) # DecodeSegment(call.minted.sig))
              => call.err = "ErrInvalidToken"

\* a token string with a later expiry than the minted one and the minted
\* one's signature is presented while the minted one is still valid, and fails
C31_Witness ==
    /\ call.op = "PresentTokenString"
    /\ call.presented.claims.exp > call.minted.claims.exp
    /\ call.presented.claims.sub = call.minted.claims.sub
    /\ call.presented.sig = call.minted.sig
    /\ call.at < call.minted.claims.exp
    /\ call.err = "ErrInvalidToken"

\* C32: a Consume(t) that returns ErrNonceExpired has removed t from the
\* store, and every later Consume(t) returns ErrNonceNotFound.
C32_ExpiredIsRemoved ==
    \A k \in DOMAIN nonceLog :
        (nonceLog[k].first # <<>> /\ nonceLog[k].first[2] = "ErrNonceExpired") =>
            /\ k \notin DOMAIN entries
            /\ nonceLog[k].later \subseteq {"ErrNonceNotFound"}

\* a token whose Consume returned ErrNonceExpired was consumed again
C32_Witness ==
    \E k \in DOMAIN nonceLog :
        /\ nonceLog[k].first # <<>>
        /\ nonceLog[k].first[2] = "ErrNonceExpired"
        /\ nonceLog[k].later = {"ErrNonceNotFound"}

\* no entry of e expired before t
NoneExpired(e, t) == \A k \in DOMAIN e : ~(e[k] < t)

\* the tokens a log records as issued no earlier than one TTL before t
IssuedWithinTTL(log, t) == {k \in DOMAIN log : log[k].issuedAt + NonceTTL >= t}

\* C33: whenever an Issue or a Consume call on the nonce store returns, the
\* store holds no entry whose expiry is earlier than the time of the call,
\* and no more entries than nonces were issued within the last TTL.
C33_NoStaleAfterCall ==
    /\ LET after == NonceIssue(entries, randomToken(nonceSeq + 1), now)
       IN /\ NoneExpired(after, now)
          /\ Cardinality(DOMAIN after)
                <= Cardinality(IssuedWithinTTL(
                       LogIssue(nonceLog, randomToken(nonceSeq + 1), now), now))
    /\ \A token \in (1..nonceSeq) \cup {UnknownNonce} :
          LET after == NonceConsume(entries, token, now)
          IN /\ NoneExpired(after, now)
             /\ Cardinality(DOMAIN after) <= Cardinality(IssuedWithinTTL(nonceLog, now))

\* a token that was never consumed has left the store: a call made after its
\* expiry purged it, while another token is still stored
C33_Witness ==
    \E k \in DOMAIN nonceLog :
        /\ nonceLog[k].first = <<>>
        /\ nonceLog[k].lateCall
        /\ k \notin DOMAIN entries
        /\ entries # <<>>

\* C34 (as stated): the database store's Revoke never reads the record after
\* its conditional update; the affected-row count alone decides the result.
C34_NoSecondRead ==
    call.op \in RevokeOps => \A c \in Callers : call.pc[c] # "find"

\* C34 (amended): the affected-row count of the single conditional update
\* decides success alone: a call whose update affected a row (the record was
\* there and not revoked) returns nil without reading; a call whose update
\* affected no row reads the record once, and only that read tells already
\* revoked from not found.
C34_ReadWhenNoRowAffected ==
    [][\A c \in Callers :
        (call.op \in RevokeOps /\ call'.op = call.op) =>
            /\ (call.pc[c] = "update" /\ call'.pc[c] = "done") =>
                  /\ call'.err[c] \in {"nil", DbRevokeFailure}
                  /\ call'.err[c] = "nil" =>
                        /\ call.tokenID \in DOMAIN rows
                        /\ rows[call.tokenID].RevokedAtUnix = 0
                        /\ rows'[call.tokenID].RevokedAtUnix = now
            /\ (call.pc[c] = "update" /\ call'.pc[c] = "find") =>
                  /\ rows' = rows
                  /\ call.tokenID \in DOMAIN rows => rows[call.tokenID].RevokedAtUnix # 0
            /\ (call.pc[c] = "find" /\ call'.pc[c] # "find") =>
                  /\ rows' = rows
                  /\ call'.pc[c] = "done"
                  /\ call'.err[c] \in {DbRevokeFailure,
                        IF call.tokenID \in DOMAIN rows
                        THEN "ErrRefreshTokenAlreadyRevoked"
                        ELSE "ErrRefreshTokenNotFound"}
            /\ (call'.err[c] # call.err[c]
                  /\ call'.err[c] \in {"ErrRefreshTokenAlreadyRevoked",
                                       "ErrRefreshTokenNotFound"}) =>
                  call.pc[c] = "find"
      ]_vars

\* one call has returned nil from its update, another has read the record and
\* returned ErrRefreshTokenAlreadyRevoked, a third is about to read
C34_Witness ==
    /\ call.op = "ConcurrentRevoke"
    /\ Returned("nil") # {}
    /\ Returned("ErrRefreshTokenAlreadyRevoked") # {}
    /\ \E c \in Callers : call.pc[c] = "find"

\* the steps of /auth/google that follow the nonce check and can reject
LaterSteps == {"https", "validator", "binding"}

\* the answer to one more /auth/google request carrying nonce k with a
\* well-formed body, whatever it would meet after the nonce check
RetryAnswers(k) ==
    {LoginResponse([NewRequest("login", "begin") EXCEPT !.nonce = k], FALSE,
                   NonceConsumeErr(entries, k, now), v) : v \in Verifications(k)}

\* C35: on /auth/google the nonce is consumed before the HTTPS requirement,
\* the identity verification and the binding checks: a request rejected at
\* one of those steps (400 https_required, 401 invalid_google_token,
\* invalid_issuer, invalid_nonce, unverified_identity) has removed its nonce,
\* no request with that nonce gets past the nonce check again, and a retry
\* with it is answered 401 invalid_nonce.
C35_NonceSpentBeforeChecks ==
    /\ \A k \in DOMAIN passed : passed[k] <= 1
    /\ (last.kind = "login" /\ last.stage = "nonce") =>
            last.status = 401 /\ last.error = "invalid_nonce"
    /\ (last.kind = "login" /\ last.stage \in LaterSteps) =>
        /\ last.stage = "https" => last.status = 400 /\ last.error = "https_required"
        /\ last.stage = "validator" =>
                last.status = 401 /\ last.error = "invalid_google_token"
        /\ last.stage = "binding" =>
                /\ last.status = 401
                /\ last.error \in {"invalid_issuer", "invalid_nonce", "unverified_identity"}
        /\ last.nonce \notin DOMAIN entries
        /\ last.nonce \in DOMAIN passed
        /\ passed[last.nonce] = 1
        /\ \A answer \in RetryAnswers(last.nonce) :
                /\ answer.stage = "nonce"
                /\ answer.status = 401 /\ answer.error = "invalid_nonce"

\* no request ever reached the user store, one request carrying nonce k got
\* past the nonce check and has been answered, and a retry with k has just
\* been refused at the nonce check
C35_Witness ==
    \E k \in DOMAIN passed :
        /\ passed[k] = 1
        /\ users = {} /\ randSeq = 0
        /\ LoginsPast(k) = {}
        /\ LastRefused(k)

\* C36: in the in-memory store, after any sequence of Issue and Revoke calls,
\* every hash in byHash maps to a TokenID whose record exists in byID, carries
\* that hash and was created by the Issue call that returned the matching
\* secret; Validate(secret) returns the UserID the secret was issued to; and
\* Issue has overwritten no record (there is a record for every Issue call).
C36_IndexesConsistent ==
    /\ \A h \in DOMAIN byHash :
        /\ byHash[h] \in DOMAIN byID
        /\ byID[byHash[h]].Hash = h
    /\ \A k \in 1..Len(issued) :
        /\ hashOpaque(issued[k].opaque) \in DOMAIN byHash
        /\ byHash[hashOpaque(issued[k].opaque)] = issued[k].id
        /\ issued[k].id \in DOMAIN byID
        /\ byID[issued[k].id].Hash = hashOpaque(issued[k].opaque)
        /\ byID[issued[k].id].UserID = issued[k].user
        /\ LET res == MemValidate(byID, byHash, issued[k].opaque, now)
           IN res.err = "nil" => res.UserID = issued[k].user
    /\ Cardinality(DOMAIN byID) = Len(issued)

\* C37: every Issue call, in either refresh store, succeeds, and with a
\* TokenID different from that of every record stored before it, also when
\* several calls read the same clock value.
C37_IssueDistinctIDs ==
    /\ call.op = "Issue" => call.memErr = "nil" /\ call.dbErr = "nil"
    /\ \A k \in 1..Len(issued) :
        /\ issued[k].db.id # NoTokenID
        /\ \A j \in 1..(k - 1) :
            /\ issued[k].mem.id # issued[j].mem.id
            /\ issued[k].db.id # issued[j].db.id

\* C38: each successful /auth/refresh gives the new refresh token the expiry
\* now + RefreshTTL, whatever the expiry of the token it replaces: every
\* record expires RefreshTTL after it was issued, and no token of a rotation
\* chain expires earlier than its predecessor.
C38_ExpiryFromRefreshTime ==
    \A id \in DOMAIN StoreRecords :
        /\ StoreRecords[id].ExpiresUnix = StoreRecords[id].IssuedAtUnix + RefreshTTL
        /\ StoreRecords[id].PreviousTokenID # NoTokenID =>
            /\ StoreRecords[id].PreviousTokenID \in DOMAIN StoreRecords
            /\ StoreRecords[id].ExpiresUnix
                  >= StoreRecords[StoreRecords[id].PreviousTokenID].ExpiresUnix

\* a refresh has just been answered 204 and the active token of a chain
\* expires later than the token issued at login, two rotations back
C38_Witness ==
    /\ last.kind = "refresh" /\ last.status = 204
    /\ \E id \in DOMAIN StoreRecords :
        LET prev == StoreRecords[id].PreviousTokenID IN
        /\ prev # NoTokenID
        /\ StoreRecords[id].RevokedAtUnix = 0
        /\ StoreRecords[prev].PreviousTokenID # NoTokenID
        /\ StoreRecords[StoreRecords[prev].PreviousTokenID].PreviousTokenID = NoTokenID
        /\ StoreRecords[id].ExpiresUnix
              > StoreRecords[StoreRecords[prev].PreviousTokenID].ExpiresUnix

\* C39: every apiFetch promise queued while a refresh was in flight is
\* settled whatever the outcome of the refresh, a thrown fetch of the refresh
\* request or of the refreshing call's retry included: once the refreshing
\* call has finished, isRefreshing is false and no promise is left in the
\* queue waiting for a flush.
C39_QueuedAlwaysSettled ==
    call.op = "apiFetch" =>
        /\ call.isRefreshing <=> (CallsAt("refresh") \cup CallsAt("retry") # {})
        /\ ~call.isRefreshing =>
                /\ CallsAt("queued") = {}
                /\ call.pendingRequests = <<>>

====
